---- MODULE Spec2Model ----
(***************************************************************************)
(* Goal-aware change detection and importance scoring engine.              *)
(*                                                                         *)
(* Numbers.  The program computes with floats; the model computes with     *)
(* exact integers in fixed units:                                          *)
(*   - a similarity or an alignment is an integer number of 1/10000        *)
(*     (the program rounds similarities to 4 places), 10000 = 1.0;         *)
(*   - a score is an integer number of hundredths (the program rounds      *)
(*     scores to 2 places), 450 = 4.50.                                    *)
(* round(x, n) is Python's rounding: to the nearest, ties to even.         *)
(*                                                                         *)
(* Texts.  A text is a sequence of tokens: 0 is a line break, 1..NumWords  *)
(* are words (consecutive words are separated by one blank).               *)
(***************************************************************************)
EXTENDS Integers, Sequences, FiniteSets, TLC

VARIABLES
    pc,          \* position of the modelled invocation
    prev_text,   \* text_diff_stats: argument prev_text
    cur_text,    \* text_diff_stats: argument cur_text
    diff,        \* text_diff_stats: the returned tuple
    prev_ss,     \* analyze_change: argument prev_ss (an image reference)
    cur_ss,      \* analyze_change: argument cur_ss
    prev_img,    \* analyze_change: local prev_img
    cur_img,     \* analyze_change: local cur_img
    sim_visual,  \* analyze_change: local sim_visual
    calls,       \* the invocations of analyze_change running side by side on the same arguments
    USE_BEDROCK, \* llm_adapter.USE_BEDROCK, read from the environment at import
    text_changed,\* whether the words of the two visible texts differ
    domain,      \* analyze_change: argument domain
    llm_res,     \* analyze_change: per invocation, what summarize_with_llm returned and why
    summary,     \* analyze_change: per invocation, local summary
    result,      \* analyze_change: per invocation, the ChangeResult returned or the error raised
    metrics,     \* run_bedrock_analysis: what the local analysis measures on the two texts
    llm_result,  \* run_bedrock_analysis: local llm_result, the parsed answer of the model
    scored,      \* run_bedrock_analysis: the scoring fields of the result it returns
    api_payload, \* analyze_change_endpoint: argument payload, the body of the request
    response,    \* analyze_change_endpoint: the HTTP response given to the caller
    analyzed,    \* analyze_change_endpoint: whether analyze_change has been started
    inv,         \* two invocations of analyze_change: the arguments and locals of each
    module_state,\* the module-level names the invocations read
    trim_t,      \* short_context_snippets.trim: argument t
    max_chars,   \* short_context_snippets: argument max_chars
    trimmed,     \* short_context_snippets.trim: the values returned, in order
    fn_args,     \* compare_texts, importance: the arguments of the function called
    fn_result    \* compare_texts, importance: what the function returned

diff_vars == <<prev_text, cur_text>>
visual_vars == <<prev_ss, cur_ss, prev_img, cur_img>>
pipeline_vars == <<calls, USE_BEDROCK, text_changed, domain, llm_res, summary, result>>
score_vars == <<metrics, llm_result, scored>>
api_vars == <<api_payload, response, analyzed>>
conc_vars == <<inv, module_state>>
trim_vars == <<trim_t, max_chars, trimmed>>
fn_vars == <<fn_args, fn_result>>
rest_vars == <<api_vars, conc_vars, trim_vars, fn_vars>>
vars == <<pc, prev_text, cur_text, diff, prev_ss, cur_ss, prev_img, cur_img, sim_visual,
          calls, USE_BEDROCK, text_changed, domain, llm_res, summary, result,
          metrics, llm_result, scored, api_payload, response, analyzed, inv, module_state,
          trim_t, max_chars, trimmed, fn_args, fn_result>>

-----------------------------------------------------------------------------
(* Bounds of the model *)

NumWords == 2     \* distinct words of the vocabulary texts are drawn from
MaxTextLen == 3   \* tokens (words and line breaks) of a text

-----------------------------------------------------------------------------
(* Arithmetic helpers *)

Min(a, b) == IF a < b THEN a ELSE b
Max(a, b) == IF a > b THEN a ELSE b

\* floor(num / den) for den > 0 and any integer num
FloorDiv(num, den) == IF num >= 0 THEN num \div den ELSE -((-num + den - 1) \div den)

\* Python round(): num/den rounded to the nearest integer, ties to the even one.
\* The arithmetic here is exact; the code's binary floats can land an exact tie
\* (x.xx5) one hundredth lower.
RoundHalfEven(num, den) ==
    LET q == FloorDiv(num, den)
        r == num - q * den
    IN  IF 2 * r < den THEN q
        ELSE IF 2 * r > den THEN q + 1
        ELSE IF q % 2 = 0 THEN q ELSE q + 1

RECURSIVE SumSeq(_)
SumSeq(s) == IF s = <<>> THEN 0 ELSE Head(s) + SumSeq(Tail(s))

-----------------------------------------------------------------------------
(* Texts *)

NL == 0
Words == 1..NumWords
Tokens == {NL} \cup Words

RECURSIVE SeqsUpTo(_, _)
SeqsUpTo(S, n) ==
    IF n = 0 THEN {<<>>}
    ELSE LET shorter == SeqsUpTo(S, n - 1)
         IN  shorter \cup {Append(s, x) : s \in {t \in shorter : Len(t) = n - 1}, x \in S}

Texts == SeqsUpTo(Tokens, MaxTextLen)

\* str.split(): the words of the text, in order
Split(t) == SelectSeq(t, LAMBDA x : x # NL)

\* str.splitlines(): the lines of the text; a final line break opens no line
RECURSIVE SplitLines(_)
SplitLines(t) ==
    IF t = <<>> THEN <<>>
    ELSE IF \E k \in 1..Len(t) : t[k] = NL
         THEN LET k == CHOOSE k \in 1..Len(t) : t[k] = NL /\ \A m \in 1..(k - 1) : t[m] # NL
              IN  <<SubSeq(t, 1, k - 1)>> \o SplitLines(SubSeq(t, k + 1, Len(t)))
         ELSE <<t>>

-----------------------------------------------------------------------------
(* difflib.SequenceMatcher(None, a, b), no junk; indices are 0-based and   *)
(* ranges half-open as in Python.                                          *)

\* length of the common run a[i:], b[j:] inside a[:ahi], b[:bhi]
RECURSIVE MatchRun(_, _, _, _, _, _)
MatchRun(a, b, i, j, ahi, bhi) ==
    IF i < ahi /\ j < bhi /\ a[i + 1] = b[j + 1]
    THEN 1 + MatchRun(a, b, i + 1, j + 1, ahi, bhi)
    ELSE 0

\* the longest matching block of a[alo:ahi] and b[blo:bhi]; of the longest,
\* the one starting earliest in a, and of those the one earliest in b
find_longest_match(a, b, alo, ahi, blo, bhi) ==
    LET starts == (alo..(ahi - 1)) \X (blo..(bhi - 1))
        size(p) == MatchRun(a, b, p[1], p[2], ahi, bhi)
        best == {p \in starts : size(p) > 0 /\ \A q \in starts : size(q) <= size(p)}
    IN  IF best = {} THEN <<alo, blo, 0>>
        ELSE LET p == CHOOSE p \in best :
                        \A q \in best : p[1] < q[1] \/ (p[1] = q[1] /\ p[2] <= q[2])
             IN  <<p[1], p[2], size(p)>>

\* the matching blocks of a[alo:ahi], b[blo:bhi] in increasing order
RECURSIVE matching_blocks(_, _, _, _, _, _)
matching_blocks(a, b, alo, ahi, blo, bhi) ==
    LET m == find_longest_match(a, b, alo, ahi, blo, bhi)
        i == m[1]
        j == m[2]
        k == m[3]
    IN  IF k = 0 THEN <<>>
        ELSE (IF alo < i /\ blo < j THEN matching_blocks(a, b, alo, i, blo, j) ELSE <<>>)
             \o <<m>>
             \o (IF i + k < ahi /\ j + k < bhi
                 THEN matching_blocks(a, b, i + k, ahi, j + k, bhi) ELSE <<>>)

get_matching_blocks(a, b) ==
    matching_blocks(a, b, 0, Len(a), 0, Len(b)) \o << <<Len(a), Len(b), 0>> >>

Opcode(tag, i1, i2, j1, j2) == [tag |-> tag, i1 |-> i1, i2 |-> i2, j1 |-> j1, j2 |-> j2]

RECURSIVE opcodes_from(_, _, _)
opcodes_from(blocks, i, j) ==
    IF blocks = <<>> THEN <<>>
    ELSE LET ai == Head(blocks)[1]
             bj == Head(blocks)[2]
             size == Head(blocks)[3]
             gap == IF i < ai /\ j < bj THEN <<Opcode("replace", i, ai, j, bj)>>
                    ELSE IF i < ai THEN <<Opcode("delete", i, ai, j, bj)>>
                    ELSE IF j < bj THEN <<Opcode("insert", i, ai, j, bj)>>
                    ELSE <<>>
             same == IF size > 0 THEN <<Opcode("equal", ai, ai + size, bj, bj + size)>>
                     ELSE <<>>
         IN  gap \o same \o opcodes_from(Tail(blocks), ai + size, bj + size)

get_opcodes(a, b) == opcodes_from(get_matching_blocks(a, b), 0, 0)

\* SequenceMatcher.ratio() rounded to 4 places: 2*M/T, and 1.0 for T = 0
ratio4(a, b) ==
    LET blocks == get_matching_blocks(a, b)
        matches == SumSeq([n \in 1..Len(blocks) |-> blocks[n][3]])
        length == Len(a) + Len(b)
    IN  IF length > 0 THEN RoundHalfEven(2 * matches * 10000, length) ELSE 10000

\* difflib.SequenceMatcher.get_grouped_opcodes(n): the opcodes cut into groups
\* of changes with at most n lines of context; a group of one "equal" opcode
\* is no group
ContextLines == 3

FixEnds(codes) ==
    LET n == ContextLines
        c0 == IF codes = <<>> THEN <<Opcode("equal", 0, 1, 0, 1)>> ELSE codes
        f == c0[1]
        c1 == IF f.tag = "equal"
              THEN [c0 EXCEPT ![1] = Opcode("equal", Max(f.i1, f.i2 - n), f.i2,
                                                     Max(f.j1, f.j2 - n), f.j2)]
              ELSE c0
        l == c1[Len(c1)]
    IN  IF l.tag = "equal"
        THEN [c1 EXCEPT ![Len(c1)] = Opcode("equal", l.i1, Min(l.i2, l.i1 + n),
                                                      l.j1, Min(l.j2, l.j1 + n))]
        ELSE c1

RECURSIVE group_walk(_, _, _)
group_walk(codes, group, groups) ==
    LET n == ContextLines IN
    IF codes = <<>>
    THEN IF group # <<>> /\ ~(Len(group) = 1 /\ group[1].tag = "equal")
         THEN Append(groups, group) ELSE groups
    ELSE LET c == Head(codes) IN
         IF c.tag = "equal" /\ c.i2 - c.i1 > n + n
         THEN group_walk(Tail(codes),
                  <<Opcode("equal", Max(c.i1, c.i2 - n), c.i2, Max(c.j1, c.j2 - n), c.j2)>>,
                  Append(groups, Append(group,
                      Opcode("equal", c.i1, Min(c.i2, c.i1 + n), c.j1, Min(c.j2, c.j1 + n)))))
         ELSE group_walk(Tail(codes), Append(group, c), groups)

get_grouped_opcodes(a, b) == group_walk(FixEnds(get_opcodes(a, b)), <<>>, <<>>)

\* lines one opcode contributes to a unified diff
OpcodeLines(c) ==
    IF c.tag = "equal" THEN c.i2 - c.i1
    ELSE (IF c.tag \in {"replace", "delete"} THEN c.i2 - c.i1 ELSE 0)
         + (IF c.tag \in {"replace", "insert"} THEN c.j2 - c.j1 ELSE 0)

\* sum(1 for _ in unified_diff(a, b)): the two file headers once, then per
\* group its @@ header and its lines
unified_diff_count(a, b) ==
    LET groups == get_grouped_opcodes(a, b)
        GroupLines(g) == 1 + SumSeq([n \in 1..Len(g) |-> OpcodeLines(g[n])])
    IN  IF groups = <<>> THEN 0
        ELSE 2 + SumSeq([n \in 1..Len(groups) |-> GroupLines(groups[n])])

-----------------------------------------------------------------------------
(* utils_dom.text_diff_stats *)

\* words of the "insert" (resp. "delete") opcodes
CountTag(codes, tag) ==
    LET width(c) == IF tag = "insert" THEN c.j2 - c.j1 ELSE c.i2 - c.i1
    IN  SumSeq([n \in 1..Len(codes) |-> IF codes[n].tag = tag THEN width(codes[n]) ELSE 0])

\* text_diff_stats with the lines of difflib.ndiff counted in place of those of
\* difflib.unified_diff: ndiff emits every line, the unchanged ones included
text_diff_stats_ndiff(prev, cur) ==
    LET prev_lines == Split(prev)
        cur_lines == Split(cur)
        codes == get_opcodes(prev_lines, cur_lines)
        line_codes == get_opcodes(SplitLines(prev), SplitLines(cur))
    IN  [added |-> CountTag(codes, "insert"),
         removed |-> CountTag(codes, "delete"),
         diff_lines |-> SumSeq([n \in 1..Len(line_codes) |-> OpcodeLines(line_codes[n])]),
         similarity |-> ratio4(prev_lines, cur_lines)]

text_diff_stats(prev, cur) ==
    LET prev_lines == Split(prev)
        cur_lines == Split(cur)
        codes == get_opcodes(prev_lines, cur_lines)
    IN  [added |-> CountTag(codes, "insert"),
         removed |-> CountTag(codes, "delete"),
         diff_lines |-> unified_diff_count(SplitLines(prev), SplitLines(cur)),
         similarity |-> ratio4(prev_lines, cur_lines)]

-----------------------------------------------------------------------------
(* Specification SpecDiff: one call of text_diff_stats on any two texts *)

\* the value of a variable the modelled invocation has not assigned
Unset == [unset |-> TRUE]

DiffIdle == prev_text = Unset /\ cur_text = Unset
VisualIdle == prev_ss = Unset /\ cur_ss = Unset /\ prev_img = Unset /\ cur_img = Unset
ScoreIdle == metrics = Unset /\ llm_result = Unset /\ scored = Unset
ApiIdle == api_payload = Unset /\ response = Unset /\ analyzed = Unset
ConcIdle == inv = Unset /\ module_state = Unset
TrimIdle == trim_t = Unset /\ max_chars = Unset /\ trimmed = Unset
FnIdle == fn_args = Unset /\ fn_result = Unset
RestIdle == ApiIdle /\ ConcIdle /\ TrimIdle /\ FnIdle
PipelineIdle ==
    /\ ScoreIdle
    /\ RestIdle
    /\ calls = {}
    /\ USE_BEDROCK = FALSE
    /\ text_changed = Unset
    /\ domain = Unset
    /\ llm_res = Unset
    /\ summary = Unset
    /\ result = Unset

InitDiff ==
    /\ pc = "diff_call"
    /\ prev_text \in Texts
    /\ cur_text \in Texts
    /\ diff = Unset
    /\ VisualIdle
    /\ sim_visual = Unset
    /\ PipelineIdle

DiffStats ==
    /\ pc = "diff_call"
    /\ diff' = text_diff_stats(prev_text, cur_text)
    /\ pc' = "diff_done"
    /\ UNCHANGED <<rest_vars, diff_vars, visual_vars, sim_visual, pipeline_vars, score_vars>>

NextDiff == DiffStats

SpecDiff == InitDiff /\ [][NextDiff]_vars

-----------------------------------------------------------------------------
(* utils_image: decoded images, load_image, ahash, dhash, hamming,         *)
(* perceptual_similarity.                                                  *)
(*                                                                         *)
(* A decoded image is known by what PIL's grayscale + LANCZOS resize make  *)
(* of it: g8, its 8x8 grid, and g9, its 9x9 grid, row by row, 0..255.      *)
(* A hash (a Python int read from a bit string) is the set of positions of *)
(* its 1 bits, position 0 being the first bit written.                     *)

\* gray level of the pixel (x, y) of the n x n grid of the picture `name`:
\* the placeholder (white), a black page, a black page with one bright dot,
\* a white page with a dark rectangle in the middle, a ramp from white
\* (left) to black (right), and its mirror image
Pixel(name, x, y, n) ==
    CASE name = "white64" -> 255
      [] name = "black" -> 0
      [] name = "dot" -> IF x = 3 /\ y = 3 THEN 255 ELSE 0
      [] name = "rect" -> IF x \in 3..4 /\ y \in 3..4 THEN 76 ELSE 255
      [] name = "ramp_down" -> 255 - (255 * x) \div (n - 1)
      [] name = "ramp_up" -> (255 * x) \div (n - 1)

Grid(name, n) == [k \in 0..(n * n - 1) |-> Pixel(name, k % n, k \div n, n)]

Picture(name) == [name |-> name, g8 |-> Grid(name, 8), g9 |-> Grid(name, 9)]

\* Image.new("RGB", (64, 64), "white")
Placeholder == Picture("white64")

\* names of the pictures a screenshot may decode to
PictureNames == {"white64", "black", "dot", "rect", "ramp_down", "ramp_up"}
PictureNamed(name) == Picture(name)

\* An image reference: None, "", bytes, a data URI, the path of an existing
\* file, or any other string (which load_image reads as base64).  "data"
\* names the picture the payload decodes to, or is "garbage".
Payloads == PictureNames \cup {"garbage"}
ImageRefs ==
    {[kind |-> k] : k \in {"none", "empty"}}
    \cup {[kind |-> k, data |-> d] : k \in {"bytes", "data_uri", "file", "base64"},
                                      d \in Payloads}

Returned(v) == [ok |-> TRUE, value |-> v]
Raised(e) == [ok |-> FALSE, error |-> e]

\* Image.open(...).convert("RGB")
ImageOpen(data) ==
    IF data = "garbage" THEN Raised("UnidentifiedImageError")
    ELSE Returned(PictureNamed(data))

load_image(x) ==
    IF x.kind \in {"none", "empty"} THEN Returned(Placeholder)
    ELSE IF x.kind = "bytes" THEN ImageOpen(x.data)
    ELSE IF x.kind = "data_uri" THEN ImageOpen(x.data)
    ELSE IF x.kind = "file" THEN ImageOpen(x.data)
    ELSE \* treat as base64, inside try/except
         IF ImageOpen(x.data).ok THEN ImageOpen(x.data) ELSE Returned(Placeholder)

\* sum(px) of a grid
RECURSIVE SumGrid(_, _)
SumGrid(g, n) == IF n = 0 THEN 0 ELSE g[n - 1] + SumGrid(g, n - 1)

\* ahash: bit k is 1 when pixel k of the 8x8 grid is above the mean
AHashBits == 64
ahash(img) ==
    LET px == img.g8
        total == SumGrid(px, AHashBits)
    IN  {k \in 0..(AHashBits - 1) : px[k] * AHashBits > total}

\* dhash: _resize(gray, size + 1) makes a 9x9 grid; per row, 8 bits
DHashSide == 9
dhash(img) ==
    LET pixels == img.g9
        w == DHashSide
        h == DHashSide
    IN  {y * (w - 1) + x : x \in 0..(w - 2), y \in 0..(h - 1)}
        \cap {k \in 0..(h * (w - 1) - 1) :
                pixels[(k \div (w - 1)) * w + (k % (w - 1))]
                > pixels[(k \div (w - 1)) * w + (k % (w - 1)) + 1]}

\* bin(a ^ b).count("1")
hamming(a, b) == Cardinality((a \ b) \cup (b \ a))

max_bits == 64

\* round(max(0.0, min(1.0, 1 - (ah_diff + dh_diff) / 2)), 4), in 1/10000
perceptual_similarity(p, c) ==
    LET ah == hamming(ahash(p), ahash(c))
        dh == hamming(dhash(p), dhash(c))
        \* sim = 1 - (ah/max_bits + dh/max_bits)/2, over the denominator 2*max_bits
        num == 2 * max_bits - (ah + dh)
        clamped == Max(0, Min(2 * max_bits, num))
    IN  RoundHalfEven(clamped * 10000, 2 * max_bits)

-----------------------------------------------------------------------------
(* Specification SpecVisual: lines 21-23 of analyze_change, statement by   *)
(* statement, on any two image references.                                 *)

InitVisual ==
    /\ pc = "visual_call"
    /\ prev_ss \in ImageRefs
    /\ cur_ss \in ImageRefs
    /\ prev_img = Unset
    /\ cur_img = Unset
    /\ sim_visual = Unset
    /\ DiffIdle
    /\ diff = Unset
    /\ PipelineIdle

\* prev_img = load_image(prev_ss)
LoadPrev ==
    /\ pc = "visual_call"
    /\ LET r == load_image(prev_ss)
       IN  IF r.ok THEN prev_img' = r.value /\ pc' = "visual_prev_loaded"
           ELSE prev_img' = prev_img /\ pc' = "visual_raised"
    /\ UNCHANGED <<rest_vars, prev_ss, cur_ss, cur_img, sim_visual, diff_vars, diff, pipeline_vars, score_vars>>

\* cur_img = load_image(cur_ss)
LoadCur ==
    /\ pc = "visual_prev_loaded"
    /\ LET r == load_image(cur_ss)
       IN  IF r.ok THEN cur_img' = r.value /\ pc' = "visual_loaded"
           ELSE cur_img' = cur_img /\ pc' = "visual_raised"
    /\ UNCHANGED <<rest_vars, prev_ss, cur_ss, prev_img, sim_visual, diff_vars, diff, pipeline_vars, score_vars>>

\* sim_visual = perceptual_similarity(prev_img, cur_img)
Compare ==
    /\ pc = "visual_loaded"
    /\ sim_visual' = perceptual_similarity(prev_img, cur_img)
    /\ pc' = "visual_done"
    /\ UNCHANGED <<rest_vars, visual_vars, diff_vars, diff, pipeline_vars, score_vars>>

NextVisual == LoadPrev \/ LoadCur \/ Compare

SpecVisual == InitVisual /\ [][NextVisual]_vars

-----------------------------------------------------------------------------
(* Strings.  A string is a sequence of chunks; a chunk [s, n] is the first *)
(* n characters of the text s (n >= 1).  Slicing cuts chunks.              *)

Chunk(s, n) == IF n > 0 THEN <<[s |-> s, n |-> n]>> ELSE <<>>

StrLen(str) == SumSeq([k \in 1..Len(str) |-> str[k].n])

\* str[:m]
RECURSIVE StrTake(_, _)
StrTake(str, m) ==
    IF str = <<>> \/ m <= 0 THEN <<>>
    ELSE IF Head(str).n <= m THEN <<Head(str)>> \o StrTake(Tail(str), m - Head(str).n)
    ELSE <<[Head(str) EXCEPT !.n = m]>>

RECURSIVE Digits(_)
Digits(n) == IF n < 10 THEN 1 ELSE 1 + Digits(n \div 10)

\* f"{n}" for an int n >= 0
Decimal(n) == Chunk(ToString(n), Digits(n))

\* str.lower() on the strings the model uses
Lower(str) ==
    CASE str = "Regulatory" -> "regulatory"
      [] str = "Trial" -> "trial"
      [] str = "Fast" -> "fast"
      [] str = "RECALL" -> "recall"
      [] str = "Hold" -> "hold"
      [] str = "Phase" -> "phase"
      [] OTHER -> str

\* the domains a caller may name, with their lengths in characters
Domains == {"regulatory", "Regulatory", "safety", "pricing", "general"}
DomainLen(d) ==
    CASE d \in {"regulatory", "Regulatory"} -> 10
      [] d = "safety" -> 6
      [] OTHER -> 7

\* the urls a caller may give: [s, n] is a url s of n characters
Urls == {[s |-> "https://example.com", n |-> 19],
         [s |-> "https://example.com/a-very-long-path", n |-> 600]}

-----------------------------------------------------------------------------
(* llm_adapter: summarize_with_llm, local_summary_fallback *)

None == [none |-> TRUE]
Dict(d) == [none |-> FALSE, dict |-> d]

JsonStr(str) == [type |-> "str", str |-> str]
JsonNull == [type |-> "null"]

\* objects the service's answer may parse to: {}, an object without the key
\* summary_change, one whose summary_change is null, and two with a string
\* (of 40 and of 600 characters)
ServiceObjects == {
    <<>>,
    [salient_points |-> JsonNull],
    [summary_change |-> JsonNull],
    [summary_change |-> JsonStr(Chunk("short llm summary", 40))],
    [summary_change |-> JsonStr(Chunk("long llm summary", 600))] }

\* what can happen once the client is called: invoke_model raises, the answer
\* holds no {...} span, the span is no JSON, or the span parses to an object
ServiceOutcomes ==
    {[cause |-> c, value |-> None] : c \in {"client_raises", "no_span", "parse_fail"}}
    \cup {[cause |-> "parsed", value |-> Dict(d)] : d \in ServiceObjects}

\* summarize_with_llm calling the client whatever USE_BEDROCK says
summarize_with_llm_unguarded(use_bedrock) == ServiceOutcomes

\* the possible returns of summarize_with_llm(prompt), each with its cause
summarize_with_llm(use_bedrock) ==
    IF ~use_bedrock THEN {[cause |-> "disabled", value |-> None]}
    ELSE ServiceOutcomes

local_summary_fallback(url, dom, added, removed, diff_lines) ==
    LET change ==
            IF added > 0 /\ removed = 0
            THEN Chunk("Added ", 6) \o Decimal(added) \o Chunk(" new words.", 11)
            ELSE IF removed > 0 /\ added = 0
            THEN Chunk("Removed ", 8) \o Decimal(removed) \o Chunk(" words.", 7)
            ELSE IF added > 0 \/ removed > 0
            THEN Decimal(added) \o Chunk(" added, ", 8) \o Decimal(removed)
                 \o Chunk(" removed.", 9)
            ELSE Chunk("Minor formatting change.", 24)
        text == Chunk("Content modified on ", 20) \o Chunk(dom, DomainLen(dom))
                \o Chunk(" page (", 7) \o Chunk(url.s, url.n) \o Chunk("): ", 3)
                \o change \o Chunk(" (", 2) \o Decimal(diff_lines)
                \o Chunk(" diff lines).", 13)
    IN  Dict([summary_change |-> JsonStr(text),
              salient_points |-> JsonNull,
              keyword_hits |-> JsonNull])

\* Python truth value of llm_res: None and {} are false
Truthy(res) == ~res.none /\ DOMAIN res.dict # {}

\* llm_res.get("summary", ""): the key misspelt
GetSummary_summary(res) ==
    IF "summary" \in DOMAIN res.dict THEN res.dict.summary
    ELSE JsonStr(<<>>)

\* llm_res.get("summary_change", "")
GetSummary(res) ==
    IF "summary_change" \in DOMAIN res.dict THEN res.dict.summary_change
    ELSE JsonStr(<<>>)

-----------------------------------------------------------------------------
(* importance: compute_importance_score, label_from_score, alert_from_label *)

\* DomainWeights.get(domain.lower(), 1.0), in hundredths
DomainWeight(d) ==
    CASE d = "regulatory" -> 120
      [] d = "safety" -> 115
      [] d = "pricing" -> 110
      [] OTHER -> 100

\* goals and watch keywords a caller may give
Goals == {"Monitor clinical trials", "Track pricing"}
Keywords == {"trial", "Trial", "approved"}

\* k.lower() in goal.lower()
InGoal(k, goal) == goal = "Monitor clinical trials" /\ Lower(k) = "trial"

MaxKeywords == 3
KeywordLists == {None} \cup {Dict(l) : l \in SeqsUpTo(Keywords, MaxKeywords)}

\* compute_importance_score with DomainWeights.get(domain, 1.0): the domain as
\* the caller wrote it
compute_importance_score_domain_as_given(text_added, text_removed, sim_text, sim_vis, goal, dom, keywords) ==
    LET base0 == (10000 - sim_text) * 6 + (10000 - sim_vis) * 4
        key_hits == IF keywords = <<>> THEN 0
                    ELSE Cardinality({n \in 1..Len(keywords) : InGoal(keywords[n], goal)})
        base == base0 + 5000 * key_hits
        weight == DomainWeight(dom)
        score == Min(10000000, base * weight)
    IN  RoundHalfEven(score, 10000)

\* compute_importance_score without "score = min(1.0, score)"
compute_importance_score_unclamped(text_added, text_removed, sim_text, sim_vis, goal, dom, keywords) ==
    LET base0 == (10000 - sim_text) * 6 + (10000 - sim_vis) * 4
        key_hits == IF keywords = <<>> THEN 0
                    ELSE Cardinality({n \in 1..Len(keywords) : InGoal(keywords[n], goal)})
        base == base0 + 5000 * key_hits
        weight == DomainWeight(Lower(dom))
    IN  RoundHalfEven(base * weight, 10000)

\* score_10 in hundredths; base in 1/100000, base * weight in 1/10000000
compute_importance_score(text_added, text_removed, sim_text, sim_vis, goal, dom, keywords) ==
    LET base0 == (10000 - sim_text) * 6 + (10000 - sim_vis) * 4
        key_hits == IF keywords = <<>> THEN 0
                    ELSE Cardinality({n \in 1..Len(keywords) : InGoal(keywords[n], goal)})
        base == base0 + 5000 * key_hits
        weight == DomainWeight(Lower(dom))
        score == Min(10000000, base * weight)
    IN  RoundHalfEven(score, 10000)

\* label_from_score with "<=" for "<" at both thresholds
label_from_score_inclusive(score) ==
    IF score <= 450 THEN "low"
    ELSE IF score <= 750 THEN "medium"
    ELSE "critical"

label_from_score(score) ==
    IF score < 450 THEN "low"
    ELSE IF score < 750 THEN "medium"
    ELSE "critical"

alert_from_label(label) ==
    CASE label = "low" -> "low"
      [] label = "medium" -> "med"
      [] label = "critical" -> "crit"

-----------------------------------------------------------------------------
(* schemas.ChangeResult *)

\* the field constraints pydantic enforces when a ChangeResult is built
ChangeResultValid(r) ==
    /\ r.has_change \in BOOLEAN
    /\ r.text_added >= 0
    /\ r.text_removed >= 0
    /\ r.similarity >= 0 /\ r.similarity <= 10000
    /\ r.total_diff_lines >= 0
    /\ r.importance \in {"low", "medium", "critical"}
    /\ r.import_score >= 0 /\ r.import_score <= 1000
    /\ r.alert_criteria \in {"low", "med", "crit"}

ChangeResult(r) ==
    IF ChangeResultValid(r) THEN Returned(r) ELSE Raised("ValidationError")

-----------------------------------------------------------------------------
(* utils_dom.extract_visible_text.  A DOM is a sequence of nodes: a word   *)
(* is a visible text node, NL is white space between nodes, ScriptTag is a *)
(* script, style or noscript element.                                      *)

ScriptTag == -1
MaxDomLen == 2
Doms == SeqsUpTo(Tokens \cup {ScriptTag}, MaxDomLen)

extract_visible_text(html_content) ==
    IF html_content = <<>> THEN <<>>
    ELSE SelectSeq(html_content, LAMBDA x : x \in Words)

-----------------------------------------------------------------------------
(* pipeline.analyze_change.  Specification Spec: one invocation, its       *)
(* arguments read where the code first uses them.                          *)

Init ==
    /\ pc = "start"
    /\ calls = {"first"}
    /\ USE_BEDROCK \in BOOLEAN
    /\ DiffIdle
    /\ VisualIdle
    /\ diff = Unset
    /\ sim_visual = Unset
    /\ text_changed = Unset
    /\ domain = Unset
    /\ llm_res = Unset
    /\ summary = Unset
    /\ result = Unset
    /\ ScoreIdle
    /\ RestIdle

\* lines 21-23: load both screenshots, compare them
VisualSimilarity ==
    /\ pc = "start"
    /\ \E p \in ImageRefs, c \in ImageRefs :
         LET prev == load_image(p)
             cur == load_image(c)
         IN  IF prev.ok /\ cur.ok
             THEN /\ pc' = "visual_done"
                  /\ sim_visual' = perceptual_similarity(prev.value, cur.value)
                  /\ result' = result
             ELSE /\ pc' = "raised"
                  /\ sim_visual' = sim_visual
                  /\ result' = [call \in calls |-> IF prev.ok THEN cur ELSE prev]
    /\ UNCHANGED <<rest_vars, diff_vars, visual_vars, diff, calls, USE_BEDROCK, text_changed, domain,
                   llm_res, summary, score_vars>>

\* lines 26-28: extract the visible texts, diff them
TextSimilarity ==
    /\ pc = "visual_done"
    /\ pc' = "text_done"
    /\ \E prev_dom \in Doms, cur_dom \in Doms :
         LET prev == extract_visible_text(prev_dom)
             cur == extract_visible_text(cur_dom)
         IN  /\ diff' = text_diff_stats(prev, cur)
             /\ text_changed' = (Split(prev) # Split(cur))
    /\ UNCHANGED <<rest_vars, diff_vars, visual_vars, sim_visual, calls, USE_BEDROCK, domain, llm_res,
                   summary, result, score_vars>>

\* llm_res, after "if not llm_res: llm_res = local_summary_fallback(...)"
SummarySource(res, url, dom, stats) ==
    IF Truthy(res) THEN res
    ELSE local_summary_fallback(url, dom, stats.added, stats.removed, stats.diff_lines)

\* lines 31-36, from the control point `at`: the summarizer returns, the
\* local summary is taken if it returned nothing
SummarizeFrom(at) ==
    /\ pc = at
    /\ pc' = "summary_done"
    /\ \E url \in Urls, dom \in Domains :
         /\ domain' = dom
         /\ \E answers \in [calls -> summarize_with_llm(USE_BEDROCK)] :
              /\ llm_res' = answers
              /\ summary' = [call \in calls |->
                               GetSummary(SummarySource(answers[call].value, url, dom, diff))]
    /\ UNCHANGED <<rest_vars, diff_vars, visual_vars, diff, sim_visual, calls, USE_BEDROCK, text_changed,
                   result, score_vars>>

\* lines 31-36: ask the summarizer, fall back to the local summary
Summarize == SummarizeFrom("text_done")

\* lines 38-60 on the locals stats (added, removed, diff_lines, similarity),
\* sim_vis and summ
build_result(stats, sim_vis, summ, goal, dom, keywords) ==
    LET score_10 == compute_importance_score(stats.added, stats.removed, stats.similarity,
                        sim_vis, goal, dom,
                        IF keywords.none THEN <<>> ELSE keywords.dict)
        label == label_from_score(score_10)
        alert == alert_from_label(label)
        has_change == (stats.added + stats.removed > 0) \/ (sim_vis < 9800)
        similarity == RoundHalfEven(stats.similarity * 6 + sim_vis * 4, 10)
    IN  IF summ.type # "str" THEN Raised("TypeError")
        ELSE ChangeResult([has_change |-> has_change,
                           text_added |-> stats.added,
                           text_removed |-> stats.removed,
                           similarity |-> similarity,
                           total_diff_lines |-> stats.diff_lines,
                           summary_change |-> StrTake(summ.str, 500),
                           importance |-> label,
                           import_score |-> score_10,
                           alert_criteria |-> alert])

\* lines 38-60 for one invocation
ScoreAndBuild(summ, goal, keywords) ==
    build_result(diff, sim_visual, summ, goal, domain, keywords)

\* lines 38-60: score, label, build the ChangeResult, return
ScoreAndReturn ==
    /\ pc = "summary_done"
    /\ pc' = "done"
    /\ \E goal \in Goals, keywords \in KeywordLists :
         result' = [call \in calls |-> ScoreAndBuild(summary[call], goal, keywords)]
    /\ UNCHANGED <<rest_vars, diff_vars, visual_vars, diff, sim_visual, calls, USE_BEDROCK, text_changed,
                   domain, llm_res, summary, score_vars>>

Next == VisualSimilarity \/ TextSimilarity \/ Summarize \/ ScoreAndReturn

Spec == Init /\ [][Next]_vars

\* Specification SpecRepeat: two invocations on the same arguments, with the
\* external summarizer disabled (the default configuration)
InitRepeat ==
    /\ pc = "start"
    /\ calls = {"first", "second"}
    /\ USE_BEDROCK = FALSE
    /\ DiffIdle
    /\ VisualIdle
    /\ diff = Unset
    /\ sim_visual = Unset
    /\ text_changed = Unset
    /\ domain = Unset
    /\ llm_res = Unset
    /\ summary = Unset
    /\ result = Unset
    /\ ScoreIdle
    /\ RestIdle

SpecRepeat == InitRepeat /\ [][Next]_vars

\* Specification SpecWait: analyze_change with the call of the external
\* service shown as two steps.  bedrock.invoke_model (llm_adapter lines 56-61)
\* is called with the client's default configuration and no timeout of the
\* code's own; the invocation then waits at "invoke_model" until the client
\* returns or raises.
SummarizeLocally == ~USE_BEDROCK /\ Summarize

InvokeModel ==
    /\ pc = "text_done"
    /\ USE_BEDROCK
    /\ pc' = "invoke_model"
    /\ UNCHANGED <<rest_vars, diff_vars, visual_vars, diff, sim_visual, pipeline_vars, score_vars>>

\* the client returns the service's answer, or raises
ClientReturns == SummarizeFrom("invoke_model")

NextWait ==
    VisualSimilarity \/ TextSimilarity \/ SummarizeLocally \/ InvokeModel \/ ClientReturns
    \/ ScoreAndReturn

\* Locals not yet assigned hold a value of their type (no step reads a local
\* before assigning it).
InitWait ==
    /\ pc = "start"
    /\ calls = {"first"}
    /\ USE_BEDROCK \in BOOLEAN
    /\ DiffIdle
    /\ VisualIdle
    /\ diff = Unset
    /\ sim_visual = 0
    /\ text_changed = FALSE
    /\ domain = ""
    /\ llm_res = Unset
    /\ summary = Unset
    /\ result = Unset
    /\ ScoreIdle
    /\ RestIdle

\* a step of the invocation's own: any change of pc, except out of the wait
\* for the client
OwnStep ==
    /\ pc \notin {"invoke_model", "done", "raised"}
    /\ \E next \in {"visual_done", "raised", "text_done", "invoke_model", "summary_done",
                     "done"} : pc' = next

\* the invocation takes its own steps when it can; the service answers when
\* it pleases, or never
SpecWait == InitWait /\ [][NextWait]_vars /\ WF_pc(OwnStep)

-----------------------------------------------------------------------------
(* compare_texts: recalibrated_scoring, and the two ways run_bedrock_analysis *)
(* reaches it.                                                             *)

\* any(kw in goal.lower() for kw in ['regulatory', 'trial', 'safety', 'clinical'])
GoalHasDomainWord(goal) == goal = "Monitor clinical trials"

\* The terms, times 10, in 1/1000000; the score in 1/10000000:
\*   (1 - similarity) * 0.55, min(1, mean_numeric_delta) * 0.25,
\*   min(1, keyword_hits / 5) * 0.10, (1 if critical_flags else 0) * 0.10,
\*   goal_alignment * 0.05;  * 1.3 for a goal with a domain word;  min(10, .)
\* base_score with text_term = similarity * 0.55
base_score_of_similarity(similarity, mean_numeric_delta, keyword_hits, critical_flags, goal_alignment) ==
    LET text_term == similarity * 550
        num_term == Min(10000, mean_numeric_delta) * 250
        kw_term == Min(5, keyword_hits) * 200000
        crit_term == IF critical_flags # <<>> THEN 1000000 ELSE 0
        align_term == goal_alignment * 50
    IN  text_term + num_term + kw_term + crit_term + align_term

\* lines 358-364: base_score, 1.0 being 10^7
base_score(similarity, mean_numeric_delta, keyword_hits, critical_flags, goal_alignment) ==
    LET text_term == (10000 - similarity) * 550
        num_term == Min(10000, mean_numeric_delta) * 250
        kw_term == Min(5, keyword_hits) * 200000
        crit_term == IF critical_flags # <<>> THEN 1000000 ELSE 0
        align_term == goal_alignment * 50
    IN  text_term + num_term + kw_term + crit_term + align_term

recalibrated_scoring(similarity, mean_numeric_delta, keyword_hits, critical_flags, goal_alignment, goal) ==
    LET base_score_ == base_score(similarity, mean_numeric_delta, keyword_hits, critical_flags, goal_alignment)
        raw == IF GoalHasDomainWord(goal) THEN base_score_ * 13 ELSE base_score_ * 10
        score == Min(100000000, raw)
        importance == IF score < 45000000 THEN "low"
                      ELSE IF score < 70000000 THEN "medium"
                      ELSE "critical"
        alert == IF score < 45000000 THEN "low"
                 ELSE IF score < 70000000 THEN "med"
                 ELSE "crit"
    IN  [import_score |-> RoundHalfEven(score, 100000),
         importance |-> importance,
         alert_criteria |-> alert]

\* Local measurements.  A local similarity is round(ratio, 4): any multiple
\* of 1/10000 from 0 to 1.
MaxHits == 6
LocalSims == 0..10000
CoarseSims == {0, 5000, 10000}
CoarseHits == {0, MaxHits}
NumericDeltas == {0, 10000}
CriticalFlagLists == {<<>>, <<"Fast Track">>}

\* token and line counts of the local diff (lines 395-413): none for
\* identical texts, some for changed ones
LocalCounts == {[text_added |-> 0, text_removed |-> 0, total_diff_lines |-> 0],
                [text_added |-> 2, text_removed |-> 1, total_diff_lines |-> 5]}

\* keyword_hits counts the goal keywords found in the texts or in the numeric
\* insights (line 425), text_keyword_hits those found in the texts (line 547)
Metrics(sims, hits) ==
    [similarity : sims,
     mean_numeric_delta : NumericDeltas,
     keyword_hits : hits,
     critical_flags : CriticalFlagLists,
     counts : LocalCounts,
     goal : Goals]

WithTextHits(m, hits) ==
    [similarity |-> m.similarity,
     mean_numeric_delta |-> m.mean_numeric_delta,
     keyword_hits |-> m.keyword_hits,
     text_keyword_hits |-> hits,
     critical_flags |-> m.critical_flags,
     counts |-> m.counts,
     goal |-> m.goal]

\* Values of a key of the answer: Absent is a missing key, Number(n) a JSON
\* number (n in 1/10000), NotNumber any other JSON value.
Absent == [kind |-> "absent"]
NotNumber == [kind |-> "not_number"]
Number(n) == [kind |-> "number", num |-> n]
JsonBool(b) == [type |-> "bool", bool |-> b]

\* the severity fields an answer may carry: none, or a critical verdict
AnswerVerdicts ==
    {[import_score |-> Absent, importance |-> Absent, alert_criteria |-> Absent],
     [import_score |-> Number(99000),
      importance |-> JsonStr(Chunk("critical", 8)),
      alert_criteria |-> JsonStr(Chunk("crit", 4))]}

\* The objects the model's answer may parse to.  The count fields are absent
\* together or all 99; the summary is absent, null, or a string of 40 or of
\* 600 characters.
AnswerObjects ==
    {[similarity |-> s, goal_alignment |-> g, has_change |-> h, summary_change |-> t,
      text_added |-> c, text_removed |-> c, total_diff_lines |-> c,
      import_score |-> v.import_score, importance |-> v.importance,
      alert_criteria |-> v.alert_criteria] :
        s \in {Absent, NotNumber} \cup {Number(n) : n \in {-5000, 5000, 15000}},
        g \in {Absent, NotNumber} \cup {Number(n) : n \in {0, 10000, 20000}},
        h \in {Absent, JsonBool(TRUE), JsonBool(FALSE)},
        t \in {Absent, JsonNull, JsonStr(Chunk("short llm summary", 40)),
               JsonStr(Chunk("long llm summary", 600))},
        c \in {Absent, Number(990000)},
        v \in AnswerVerdicts}

\* llm_result.get(key, default) for a number, and for any value
GetOr(value, default) == IF value = Absent THEN Number(default) ELSE value
Get(value, default) == IF value = Absent THEN default ELSE value

\* f"{similarity:.2%}": the percentage with two decimals and the sign
Percent(sim) == Chunk(ToString(sim), Digits(sim \div 100) + 4)

\* lines 434-447: the parts of the local summary, joined with ". ", and "."
local_summary(m) ==
    LET insights == IF m.mean_numeric_delta > 0
                    THEN Chunk("Key changes: <numeric insights>", 31) \o Chunk(". ", 2)
                    ELSE <<>>
        flags == IF m.critical_flags # <<>>
                 THEN Chunk("Critical updates: Fast Track", 28) \o Chunk(". ", 2)
                 ELSE <<>>
        tokens == Decimal(m.counts.text_added) \o Chunk(" tokens added, ", 15)
                  \o Decimal(m.counts.text_removed) \o Chunk(" removed; similarity=", 21)
                  \o Percent(m.similarity)
    IN  insights \o flags \o tokens \o Chunk(".", 1)

\* enhanced_diff_analysis: the local result
enhanced_diff_analysis(m) ==
    LET goal_alignment == 5000
        s == recalibrated_scoring(m.similarity, m.mean_numeric_delta, m.keyword_hits,
                                  m.critical_flags, goal_alignment, m.goal)
        has_change == (m.counts.text_added + m.counts.text_removed > 0)
                      \/ (m.similarity < 9800) \/ (m.critical_flags # <<>>)
    IN  [has_change |-> JsonBool(has_change),
         summary_change |-> JsonStr(StrTake(local_summary(m), 500)),
         text_added |-> m.counts.text_added,
         text_removed |-> m.counts.text_removed,
         similarity |-> m.similarity,
         total_diff_lines |-> m.counts.total_diff_lines,
         goal_alignment |-> goal_alignment,
         import_score |-> s.import_score,
         importance |-> s.importance,
         alert_criteria |-> s.alert_criteria,
         llm_used |-> FALSE]

\* a count taken from the answer when it carries one
local_count_or_answer(answer_value, local_value) ==
    IF answer_value = Absent THEN local_value ELSE answer_value.num \div 10000

\* lines 530, 531, 533: "Always use local"
local_count(answer_value, local_value) == local_value

\* the score of the answer when it carries one (in hundredths)
answer_score_or_rescored(answer_value, import_score) ==
    IF answer_value = Absent THEN import_score ELSE answer_value.num \div 100

\* line 558: merged["import_score"] = import_score
rescored(answer_value, import_score) == import_score

\* run_bedrock_analysis after the model answered with the object `payload`:
\* merge, score again with the merged similarity and goal_alignment; any
\* exception falls back to the local analysis
merged_analysis(m, payload) ==
    LET local_result == enhanced_diff_analysis(m)
        similarity == GetOr(payload.similarity, local_result.similarity)
        goal_alignment == GetOr(payload.goal_alignment, local_result.goal_alignment)
    IN  IF similarity = NotNumber \/ goal_alignment = NotNumber
        THEN local_result
        ELSE LET s == recalibrated_scoring(similarity.num, m.mean_numeric_delta,
                                           m.text_keyword_hits, m.critical_flags,
                                           goal_alignment.num, m.goal)
             IN  [has_change |-> Get(payload.has_change, local_result.has_change),
                  summary_change |-> Get(payload.summary_change,
                                         local_result.summary_change),
                  text_added |-> local_count(payload.text_added, local_result.text_added),
                  text_removed |-> local_count(payload.text_removed,
                                               local_result.text_removed),
                  similarity |-> similarity.num,
                  total_diff_lines |-> local_count(payload.total_diff_lines,
                                                   local_result.total_diff_lines),
                  goal_alignment |-> goal_alignment.num,
                  import_score |-> rescored(payload.import_score, s.import_score),
                  importance |-> s.importance,
                  alert_criteria |-> s.alert_criteria,
                  llm_used |-> TRUE]

\* Specification SpecScore: one invocation of run_bedrock_analysis
InitScore ==
    /\ pc = "bedrock_call"
    /\ \/ /\ USE_BEDROCK = FALSE
          \* text_keyword_hits is not read on this path
          /\ \E m \in Metrics(LocalSims, CoarseHits) \cup Metrics(CoarseSims, 0..MaxHits) :
                metrics = WithTextHits(m, m.keyword_hits)
       \/ /\ USE_BEDROCK = TRUE
          /\ \E m \in Metrics(CoarseSims, CoarseHits) :
                \E hits \in {h \in CoarseHits : h <= m.keyword_hits} :
                    metrics = WithTextHits(m, hits)
    /\ llm_result = Unset
    /\ scored = Unset
    /\ RestIdle
    /\ DiffIdle
    /\ VisualIdle
    /\ diff = Unset
    /\ sim_visual = Unset
    /\ calls = {}
    /\ text_changed = Unset
    /\ domain = Unset
    /\ llm_res = Unset
    /\ summary = Unset
    /\ result = Unset

\* lines 488-495: boto3 missing or USE_BEDROCK off
LocalOnly ==
    /\ pc = "bedrock_call"
    /\ ~USE_BEDROCK
    /\ scored' = enhanced_diff_analysis(metrics)
    /\ pc' = "bedrock_done"
    /\ UNCHANGED <<rest_vars, metrics, llm_result, diff_vars, visual_vars, diff, sim_visual,
                   pipeline_vars>>

\* lines 497-521, 566-569: the client call or coerce_json raises
BedrockFails ==
    /\ pc = "bedrock_call"
    /\ USE_BEDROCK
    /\ scored' = enhanced_diff_analysis(metrics)
    /\ pc' = "bedrock_done"
    /\ UNCHANGED <<rest_vars, metrics, llm_result, diff_vars, visual_vars, diff, sim_visual,
                   pipeline_vars>>

\* lines 497-564: the model answers with a JSON object
BedrockAnswers ==
    /\ pc = "bedrock_call"
    /\ USE_BEDROCK
    /\ \E payload \in AnswerObjects :
         /\ llm_result' = payload
         /\ scored' = merged_analysis(metrics, payload)
    /\ pc' = "bedrock_done"
    /\ UNCHANGED <<rest_vars, metrics, diff_vars, visual_vars, diff, sim_visual, pipeline_vars>>

NextScore == LocalOnly \/ BedrockFails \/ BedrockAnswers

SpecScore == InitScore /\ [][NextScore]_vars

-----------------------------------------------------------------------------
(* Properties of recalibrated_scoring (specification SpecScore)            *)

\* C1: the labels run_bedrock_analysis returns are the ones the ladder
\* (below 4.5 low/low, from 4.5 and below 7.0 medium/med, from 7.0
\* critical/crit) gives for the import_score it returns.
C1_LabelsFollowReturnedScore ==
    pc = "bedrock_done" =>
        <<scored.importance, scored.alert_criteria>>
            = (IF scored.import_score < 450 THEN <<"low", "low">>
               ELSE IF scored.import_score < 700 THEN <<"medium", "med">>
               ELSE <<"critical", "crit">>)

\* C2: the import_score run_bedrock_analysis returns lies in [0, 10] on every
\* path, the one that scores again with the answer's similarity and
\* goal_alignment included.
C2_ScoreInRange ==
    pc = "bedrock_done" => scored.import_score >= 0 /\ scored.import_score <= 1000

-----------------------------------------------------------------------------
(* Properties of text_diff_stats (specification SpecDiff)                  *)

\* C4: when the word sequences of the two texts differ, text_diff_stats
\* reports added > 0 or removed > 0.
C4_WordChangeCounted ==
    (pc = "diff_done" /\ Split(prev_text) # Split(cur_text)) =>
        (diff.added > 0 \/ diff.removed > 0)

\* C5: text_diff_stats(T, T) = (0, 0, 0, 1.0) for every text T, the empty
\* one included.
C5_IdenticalTexts ==
    (pc = "diff_done" /\ prev_text = cur_text) =>
        diff = [added |-> 0, removed |-> 0, diff_lines |-> 0, similarity |-> 10000]

\* text_diff_stats has run on one text of several lines given twice
C5_Witness ==
    /\ pc = "diff_done"
    /\ prev_text = cur_text
    /\ Len(SplitLines(prev_text)) >= 2
    /\ diff.similarity = 10000

-----------------------------------------------------------------------------
(* Properties of load_image (specification SpecVisual)                     *)

\* C9: load_image never raises, and gives the 64x64 white placeholder for an
\* absent, empty or undecodable reference.
C9_LoadImageTotal ==
    LET BadReference(x) == x.kind \in {"none", "empty"} \/ x.data = "garbage"
    IN  /\ pc # "visual_raised"
        /\ (pc \in {"visual_prev_loaded", "visual_loaded", "visual_done"}
              /\ BadReference(prev_ss)) => prev_img = Placeholder
        /\ (pc \in {"visual_loaded", "visual_done"}
              /\ BadReference(cur_ss)) => cur_img = Placeholder

-----------------------------------------------------------------------------
(* Properties of analyze_change (specifications Spec and SpecRepeat)       *)

\* C3: when the visible texts differ in at least one word, the result's
\* has_change is true, whatever the screenshots.
C3_TextChangeDetected ==
    pc = "done" =>
        \A call \in calls :
            (result[call].ok /\ text_changed) => result[call].value.has_change

C7_LabelsFollowScore ==
    pc = "done" =>
        \A call \in calls :
            result[call].ok =>
                LET r == result[call].value
                IN  /\ r.importance = (IF r.import_score < 450 THEN "low"
                                       ELSE IF r.import_score < 750 THEN "medium"
                                       ELSE "critical")
                    /\ r.alert_criteria = (CASE r.importance = "low" -> "low"
                                             [] r.importance = "medium" -> "med"
                                             [] r.importance = "critical" -> "crit")

\* a result is returned whose score is the threshold 4.5 itself
C7_Witness ==
    /\ pc = "done"
    /\ result["first"].ok
    /\ result["first"].value.import_score = 450
    /\ result["first"].value.importance = "medium"
    /\ result["first"].value.alert_criteria = "med"

C10_FallbackSummary ==
    pc = "done" =>
        \A call \in calls :
            llm_res[call].cause \in {"disabled", "client_raises", "no_span", "parse_fail"} =>
                /\ result[call].ok
                /\ StrLen(result[call].value.summary_change) > 0
                /\ \E url \in Urls :
                     LET fallback == local_summary_fallback(url, domain, diff.added,
                                         diff.removed, diff.diff_lines)
                     IN  result[call].value.summary_change
                             = StrTake(fallback.dict.summary_change.str, 500)

\* the client was called, its answer did not parse, and the fallback text
\* was longer than 500 characters
C10_Witness ==
    /\ pc = "done"
    /\ USE_BEDROCK
    /\ llm_res["first"].cause = "parse_fail"
    /\ result["first"].ok
    /\ StrLen(result["first"].value.summary_change) = 500

\* C11: when the summarizer's answer parses to an object that does not match
\* the expected schema (summary_change missing, null or not a string),
\* analyze_change behaves as for a failed call: it returns normally and
\* summary_change is the local fallback summary, nothing being taken from
\* the answer.
C11_NonConformingAnswerIsFailure ==
    pc = "done" =>
        \A call \in calls :
            (/\ llm_res[call].cause = "parsed"
             /\ \/ "summary_change" \notin DOMAIN llm_res[call].value.dict
                \/ llm_res[call].value.dict.summary_change.type # "str") =>
                /\ result[call].ok
                /\ \E url \in Urls :
                     LET fallback == local_summary_fallback(url, domain, diff.added,
                                         diff.removed, diff.diff_lines)
                     IN  result[call].value.summary_change
                             = StrTake(fallback.dict.summary_change.str, 500)

-----------------------------------------------------------------------------
(* Properties of the merge in run_bedrock_analysis (specification          *)
(* SpecScore)                                                              *)

\* C12: when run_bedrock_analysis uses the answer, text_added, text_removed
\* and total_diff_lines of the merged result are the values
\* enhanced_diff_analysis computes for the same texts, whatever the answer
\* holds, fields of those names included.
C12_LocalCountsKept ==
    (pc = "bedrock_done" /\ scored.llm_used) =>
        LET local_result == enhanced_diff_analysis(metrics)
        IN  /\ scored.text_added = local_result.text_added
            /\ scored.text_removed = local_result.text_removed
            /\ scored.total_diff_lines = local_result.total_diff_lines

\* the answer was used, it carried counts of its own, and the local diff
\* had found changes
C12_Witness ==
    /\ pc = "bedrock_done"
    /\ scored.llm_used
    /\ llm_result.text_added = Number(990000)
    /\ llm_result.total_diff_lines = Number(990000)
    /\ metrics.counts.text_added = 2
    /\ scored.text_added = 2
    /\ scored.total_diff_lines = 5

\* C13: when run_bedrock_analysis uses the answer, has_change and similarity
\* of the merged result are the locally computed ones, whatever the answer
\* holds: only summary_change, key_insights and goal_alignment may differ.
C13_LocalVerdictKept ==
    (pc = "bedrock_done" /\ scored.llm_used) =>
        LET local_result == enhanced_diff_analysis(metrics)
        IN  /\ scored.has_change = local_result.has_change
            /\ scored.similarity = local_result.similarity

\* C14: import_score, importance and alert_criteria of a result of
\* run_bedrock_analysis do not depend on the fields of those names in the
\* answer: a second run on the same texts and goal, whose answer differs
\* from this one's in those three fields only, gives the same three values.
C14_VerdictIgnoresAnswerVerdict ==
    pc = "bedrock_done" =>
        \A v \in AnswerVerdicts :
            LET other_answer == [llm_result EXCEPT !.import_score = v.import_score,
                                                   !.importance = v.importance,
                                                   !.alert_criteria = v.alert_criteria]
                other == IF llm_result = Unset THEN enhanced_diff_analysis(metrics)
                         ELSE merged_analysis(metrics, other_answer)
            IN  /\ other.import_score = scored.import_score
                /\ other.importance = scored.importance
                /\ other.alert_criteria = scored.alert_criteria

\* the answer was used and carried a critical verdict of its own, and the
\* recomputed verdict is another one
C14_Witness ==
    /\ pc = "bedrock_done"
    /\ scored.llm_used
    /\ llm_result.import_score = Number(99000)
    /\ llm_result.importance = JsonStr(Chunk("critical", 8))
    /\ scored.import_score < 450
    /\ scored.importance = "low"

-----------------------------------------------------------------------------
(* Termination of analyze_change (specification SpecWait)                  *)

-----------------------------------------------------------------------------
(* api.routes_change: analyze_change_endpoint.  Specification SpecApi: one *)
(* request.  A payload is known by the keys it carries and by which of     *)
(* them hold a value of a type the schema does not accept.                 *)

RequiredFields == {"prev_dom", "cur_dom", "prev_ss", "cur_ss", "goal", "domain", "url"}
OptionalFields == {"keywords"}
UnknownFields == {"extra_field"}

ApiPayloads ==
    {[keys |-> k, ill_typed |-> i] :
        k \in SUBSET (RequiredFields \cup OptionalFields \cup UnknownFields),
        i \in {{}} \cup {{f} : f \in RequiredFields \cup OptionalFields}}

\* a schema that lets unknown keys pass (extra="ignore")
model_validate_ignoring_extra(d) ==
    /\ RequiredFields \subseteq d.keys
    /\ d.ill_typed \cap d.keys = {}

\* ChangeInput.model_validate: TRUE when it returns a ChangeInput, FALSE
\* when it raises ValidationError
model_validate(d) ==
    /\ RequiredFields \subseteq d.keys
    /\ d.keys \subseteq RequiredFields \cup OptionalFields
    /\ d.ill_typed \cap d.keys = {}

from_api_payload(d) == model_validate(d)

InitApi ==
    /\ pc = "api_call"
    /\ api_payload \in ApiPayloads
    /\ response = Unset
    /\ analyzed = FALSE
    /\ ConcIdle
    /\ TrimIdle
    /\ FnIdle
    /\ ScoreIdle
    /\ DiffIdle
    /\ VisualIdle
    /\ diff = Unset
    /\ sim_visual = Unset
    /\ calls = {}
    /\ USE_BEDROCK = Unset
    /\ text_changed = Unset
    /\ domain = Unset
    /\ llm_res = Unset
    /\ summary = Unset
    /\ result = Unset

idle_vars == <<diff_vars, visual_vars, diff, sim_visual, pipeline_vars, score_vars, fn_vars>>

\* line 60, and lines 83-88 when it raises
ApiValidate ==
    /\ pc = "api_call"
    /\ IF from_api_payload(api_payload)
       THEN /\ pc' = "api_validated"
            /\ response' = response
       ELSE /\ pc' = "api_responded"
            /\ response' = [status_code |-> 422]
    /\ UNCHANGED <<api_payload, analyzed, conc_vars, trim_vars, idle_vars>>

\* lines 65-81, and lines 90-95 when analyze_change raises
ApiAnalyze ==
    /\ pc = "api_validated"
    /\ analyzed' = TRUE
    /\ \E outcome \in {"returned", "raised"} :
          response' = [status_code |-> IF outcome = "returned" THEN 200 ELSE 500]
    /\ pc' = "api_responded"
    /\ UNCHANGED <<api_payload, conc_vars, trim_vars, idle_vars>>

NextApi == ApiValidate \/ ApiAnalyze

SpecApi == InitApi /\ [][NextApi]_vars

-----------------------------------------------------------------------------
(* Properties of analyze_change_endpoint (specification SpecApi)           *)

\* C16: a payload that lacks a required field or carries an unknown field
\* is answered with 422 and analyze_change is never started for it;
\* whenever analyze_change has been started, validation has accepted the
\* payload before.
C16_InvalidPayloadRejected ==
    /\ (RequiredFields \ api_payload.keys # {} \/ api_payload.keys \cap UnknownFields # {}) =>
            /\ analyzed = FALSE
            /\ pc # "api_validated"
            /\ pc = "api_responded" => response = [status_code |-> 422]
    /\ analyzed = TRUE =>
            /\ RequiredFields \subseteq api_payload.keys
            /\ api_payload.keys \subseteq RequiredFields \cup OptionalFields
            /\ api_payload.ill_typed \cap api_payload.keys = {}

\* a request that has every required field and one unknown field has been
\* answered with 422 without analyze_change being started
C16_Witness ==
    /\ pc = "api_responded"
    /\ api_payload.keys = RequiredFields \cup UnknownFields
    /\ api_payload.ill_typed = {}
    /\ response = [status_code |-> 422]
    /\ analyzed = FALSE

-----------------------------------------------------------------------------
(* pipeline.analyze_change, two invocations at once.  Specification        *)
(* SpecTwo: each invocation has its own arguments and its own locals       *)
(* (inv[p]); a step of either may come between any two steps of the other. *)
(* module_state holds the module-level names the steps read.               *)

Invocations == {"a", "b"}

\* the arguments a caller may give to one invocation
CallArgs ==
    {[prev_ss |-> [kind |-> "none"],
      cur_ss |-> c_ss,
      prev_dom |-> <<1>>,
      cur_dom |-> c_dom,
      goal |-> "Monitor clinical trials",
      domain |-> dom,
      url |-> [s |-> "https://example.com", n |-> 19],
      keywords |-> kw] :
        c_ss \in {[kind |-> "none"], [kind |-> "bytes", data |-> "rect"],
                  [kind |-> "bytes", data |-> "garbage"]},
        c_dom \in {<<1>>, <<1, NL, 2>>},
        dom \in {"regulatory", "general"},
        kw \in {None, Dict(<<"trial">>)}}

\* the module-level names as they stand once the modules are imported
ModuleStates ==
    {[USE_BEDROCK |-> b,
      MODEL_ID |-> "anthropic.claude-3-5-sonnet-20240620-v1:0",
      DomainWeights |-> [d \in {"regulatory", "safety", "pricing"} |-> DomainWeight(d)]] :
        b \in BOOLEAN}

Started(args) ==
    [pc |-> "start", args |-> args, sim_visual |-> Unset, diff |-> Unset,
     llm_res |-> Unset, summary |-> Unset, result |-> Unset]

InitTwo ==
    /\ pc = "two_calls"
    /\ module_state \in ModuleStates
    /\ \E args \in [Invocations -> CallArgs] :
          /\ args["a"] # args["b"]
          /\ inv = [p \in Invocations |-> Started(args[p])]
    /\ ApiIdle
    /\ TrimIdle
    /\ FnIdle
    /\ ScoreIdle
    /\ DiffIdle
    /\ VisualIdle
    /\ diff = Unset
    /\ sim_visual = Unset
    /\ calls = {}
    /\ USE_BEDROCK = Unset
    /\ text_changed = Unset
    /\ domain = Unset
    /\ llm_res = Unset
    /\ summary = Unset
    /\ result = Unset

\* the text statistics kept in one module-level name instead of a local:
\* an invocation reads what another invocation left there, if it left any
shared_local(invs, p, name) ==
    LET wrote == {q \in DOMAIN invs \ {p} : invs[q].pc \in {"text_done", "summary_done", "done"}}
    IN  IF name = "diff" /\ wrote # {} THEN invs[CHOOSE q \in wrote : TRUE].diff
        ELSE invs[p][name]

\* the value of the local variable `name` of invocation p
local(invs, p, name) == invs[p][name]

\* lines 21-23 in invocation p
TwoVisualSimilarity(p) ==
    /\ inv[p].pc = "start"
    /\ LET prev == load_image(inv[p].args.prev_ss)
           cur == load_image(inv[p].args.cur_ss)
       IN  IF prev.ok /\ cur.ok
           THEN inv' = [inv EXCEPT ![p].pc = "visual_done",
                                   ![p].sim_visual = perceptual_similarity(prev.value, cur.value)]
           ELSE inv' = [inv EXCEPT ![p].pc = "raised",
                                   ![p].result = IF prev.ok THEN cur ELSE prev]
    /\ UNCHANGED <<pc, module_state, api_vars, trim_vars, idle_vars>>

\* lines 26-28 in invocation p
TwoTextSimilarity(p) ==
    /\ inv[p].pc = "visual_done"
    /\ inv' = [inv EXCEPT ![p].pc = "text_done",
                          ![p].diff = text_diff_stats(extract_visible_text(inv[p].args.prev_dom),
                                                      extract_visible_text(inv[p].args.cur_dom))]
    /\ UNCHANGED <<pc, module_state, api_vars, trim_vars, idle_vars>>

\* lines 31-36 in invocation p
TwoSummarize(p) ==
    /\ inv[p].pc = "text_done"
    /\ \E res \in summarize_with_llm(module_state.USE_BEDROCK) :
          inv' = [inv EXCEPT ![p].pc = "summary_done",
                             ![p].llm_res = res,
                             ![p].summary = GetSummary(SummarySource(res.value, inv[p].args.url,
                                                inv[p].args.domain, local(inv, p, "diff")))]
    /\ UNCHANGED <<pc, module_state, api_vars, trim_vars, idle_vars>>

\* lines 38-60 in invocation p
TwoScoreAndReturn(p) ==
    /\ inv[p].pc = "summary_done"
    /\ inv' = [inv EXCEPT ![p].pc = "done",
                          ![p].result = build_result(local(inv, p, "diff"),
                                            local(inv, p, "sim_visual"),
                                            local(inv, p, "summary"),
                                            inv[p].args.goal, inv[p].args.domain,
                                            inv[p].args.keywords)]
    /\ UNCHANGED <<pc, module_state, api_vars, trim_vars, idle_vars>>

NextTwo ==
    \E p \in Invocations :
        \/ TwoVisualSimilarity(p)
        \/ TwoTextSimilarity(p)
        \/ TwoSummarize(p)
        \/ TwoScoreAndReturn(p)

SpecTwo == InitTwo /\ [][NextTwo]_vars

\* analyze_change(args) run from its first line to its last with nothing in
\* between, the summarizer returning res
analyze_change_alone(args, res) ==
    LET prev == load_image(args.prev_ss)
        cur == load_image(args.cur_ss)
        stats == text_diff_stats(extract_visible_text(args.prev_dom),
                                 extract_visible_text(args.cur_dom))
        summ == GetSummary(SummarySource(res.value, args.url, args.domain, stats))
    IN  IF ~prev.ok THEN prev
        ELSE IF ~cur.ok THEN cur
        ELSE build_result(stats, perceptual_similarity(prev.value, cur.value), summ,
                          args.goal, args.domain, args.keywords)

-----------------------------------------------------------------------------
(* Properties of two interleaved invocations (specification SpecTwo)       *)

\* C17: two invocations of analyze_change on different inputs, interleaved
\* step by step in any order, each return the result they return when run
\* alone (with the same return of the summarizer, which is one the
\* configuration allows), and no step changes the module-level state
\* (DomainWeights, USE_BEDROCK, MODEL_ID).
C17_InvocationsIndependent ==
    /\ [](\A p \in Invocations :
            /\ inv[p].pc = "raised" =>
                  inv[p].result = analyze_change_alone(inv[p].args, [value |-> None])
            /\ inv[p].pc = "done" =>
                  /\ inv[p].llm_res \in summarize_with_llm(module_state.USE_BEDROCK)
                  /\ inv[p].result = analyze_change_alone(inv[p].args, inv[p].llm_res))
    /\ [][module_state' = module_state]_vars

\* invocation "b" ran from its first step to its return while invocation
\* "a" stood between its text comparison and its summary, with the external
\* summarizer enabled and answering "b"
C17_Witness ==
    /\ inv["a"].pc = "text_done"
    /\ inv["b"].pc = "done"
    /\ module_state.USE_BEDROCK
    /\ inv["b"].llm_res.cause = "parsed"
    /\ inv["b"].result.ok
    /\ inv["a"].diff # inv["b"].diff

-----------------------------------------------------------------------------
(* Length of summary_change in run_bedrock_analysis (specification         *)
(* SpecScore)                                                              *)

\* C18: the summary_change of every result has at most 500 characters, on
\* every path that produces a result; here, on the paths of
\* run_bedrock_analysis: the local result and the result merged from the
\* answer of the model.
C18_SummaryAtMost500 ==
    (pc = "bedrock_done" /\ scored.summary_change.type = "str") =>
        StrLen(scored.summary_change.str) <= 500

-----------------------------------------------------------------------------
(* Properties of perceptual_similarity (specification SpecVisual)          *)

\* C19: perceptual_similarity(a, b) is 1 - (hamming(aHash) + hamming(dHash)) / 128
\* rounded to 4 places (in 1/10000: within half a unit of the exact
\* quotient), lies within [0, 1], and is exactly 1.0 when a and b are the
\* same image.
C19_SimilarityIsTheFormula ==
    pc = "visual_done" =>
        LET ah == hamming(ahash(prev_img), ahash(cur_img))
            dh == hamming(dhash(prev_img), dhash(cur_img))
            exact_128 == (128 - (ah + dh)) * 10000
        IN  /\ sim_visual * 128 - exact_128 <= 64
            /\ exact_128 - sim_visual * 128 <= 64
            /\ sim_visual >= 0
            /\ sim_visual <= 10000
            /\ prev_img = cur_img => sim_visual = 10000

-----------------------------------------------------------------------------
(* utils_dom.short_context_snippets.  Specification SpecTrim: the function *)
(* applied to a pair of texts, then to the pair it returned.  Here a text  *)
(* is a sequence of characters; " " is the white space str.strip removes.  *)

MaxTrimLen == 5      \* longest text given to short_context_snippets
MaxTrimChars == 4    \* largest max_chars given to short_context_snippets

TrimChars == {" ", "x", "y"}
TrimTexts == SeqsUpTo(TrimChars, MaxTrimLen)

\* t.lstrip()
RECURSIVE lstrip(_)
lstrip(s) == IF s # <<>> /\ Head(s) = " " THEN lstrip(Tail(s)) ELSE s

\* t.rstrip()
RECURSIVE rstrip(_)
rstrip(s) == IF s # <<>> /\ s[Len(s)] = " " THEN rstrip(SubSeq(s, 1, Len(s) - 1)) ELSE s

\* t.strip()
strip(s) == rstrip(lstrip(s))

\* t[:n], for n >= 0
SliceTo(s, n) == SubSeq(s, 1, Min(n, Len(s)))

\* t[-n:], for n >= 0: t[-0:] is t[0:], the whole of t
SliceLast(s, n) == IF n = 0 THEN s ELSE SubSeq(s, Max(1, Len(s) - n + 1), Len(s))

\* lines 112-117
trim(s, limit) ==
    LET stripped == strip(s)
        half == limit \div 2
    IN  IF Len(stripped) <= limit THEN stripped
        ELSE SliceTo(stripped, half) \o <<" ", ".", ".", ".", " ">> \o SliceLast(stripped, half)

short_context_snippets(prev, cur, limit) == <<trim(prev, limit), trim(cur, limit)>>

InitTrim ==
    /\ pc = "trim_call"
    /\ trim_t \in TrimTexts
    /\ max_chars \in 0..MaxTrimChars
    /\ trimmed = <<>>
    /\ ApiIdle
    /\ ConcIdle
    /\ FnIdle
    /\ ScoreIdle
    /\ DiffIdle
    /\ VisualIdle
    /\ diff = Unset
    /\ sim_visual = Unset
    /\ calls = {}
    /\ USE_BEDROCK = Unset
    /\ text_changed = Unset
    /\ domain = Unset
    /\ llm_res = Unset
    /\ summary = Unset
    /\ result = Unset

\* short_context_snippets(t, t, max_chars)
SnippetsOfTexts ==
    /\ pc = "trim_call"
    /\ pc' = "trimmed_once"
    /\ trimmed' = <<short_context_snippets(trim_t, trim_t, max_chars)>>
    /\ UNCHANGED <<trim_t, max_chars, api_vars, conc_vars, idle_vars>>

\* short_context_snippets on the pair the first call returned
SnippetsOfSnippets ==
    /\ pc = "trimmed_once"
    /\ pc' = "trimmed_twice"
    /\ trimmed' = Append(trimmed,
                         short_context_snippets(trimmed[1][1], trimmed[1][2], max_chars))
    /\ UNCHANGED <<trim_t, max_chars, api_vars, conc_vars, idle_vars>>

NextTrim == SnippetsOfTexts \/ SnippetsOfSnippets

SpecTrim == InitTrim /\ [][NextTrim]_vars

-----------------------------------------------------------------------------
(* Properties of short_context_snippets (specification SpecTrim)           *)

\* C20: short_context_snippets returns a text that is no longer than
\* max_chars unchanged, and trimming an already-trimmed snippet of a longer
\* text with the same max_chars returns that snippet again.
C20_TrimIdempotent ==
    /\ (pc \in {"trimmed_once", "trimmed_twice"} /\ Len(trim_t) <= max_chars) =>
            trimmed[1] = <<trim_t, trim_t>>
    /\ (pc = "trimmed_twice" /\ Len(trim_t) > max_chars) =>
            trimmed[2] = trimmed[1]

\* C21: each of the two snippets returned by short_context_snippets has
\* length at most max_chars, for every pair of texts and max_chars >= 1.
C21_SnippetWithinMaxChars ==
    (pc = "trimmed_once" /\ max_chars >= 1) =>
        /\ Len(trimmed[1][1]) <= max_chars
        /\ Len(trimmed[1][2]) <= max_chars

-----------------------------------------------------------------------------
(* compare_texts.detect_critical_phrases.  Specification SpecCritical.     *)
(* Here a document is a sequence of words separated by single blanks, and  *)
(* a term of the vocabulary is the sequence of its words.                  *)

MaxDocLen == 2    \* longest document, in words

DocWords == {"Fast", "fast", "track", "RECALL", "threshold", "hold"}
Docs == SeqsUpTo(DocWords, MaxDocLen)

\* critical_terms, lines 262-266
critical_terms ==
    << <<"fast", "track">>, <<"breakthrough">>, <<"discontinued">>, <<"terminated">>,
       <<"recall">>, <<"regulatory", "submission">>, <<"protocol", "v1.1">>,
       <<"phase", "3">>, <<"phase", "iii">>, <<"paused">>, <<"delay">>, <<"hold">>,
       <<"accelerated", "approval">>, <<"priority", "review">> >>

\* text.lower(), word by word
LowerDoc(doc) == [k \in 1..Len(doc) |-> Lower(doc[k])]

\* str.capitalize() on the words of the vocabulary
Capitalize(w) ==
    CASE w = "fast" -> "Fast"            [] w = "track" -> "Track"
      [] w = "breakthrough" -> "Breakthrough"
      [] w = "discontinued" -> "Discontinued"
      [] w = "terminated" -> "Terminated"
      [] w = "recall" -> "Recall"
      [] w = "regulatory" -> "Regulatory" [] w = "submission" -> "Submission"
      [] w = "protocol" -> "Protocol"     [] w = "v1.1" -> "V1.1"
      [] w = "phase" -> "Phase"           [] w = "iii" -> "Iii"
      [] w = "paused" -> "Paused"         [] w = "delay" -> "Delay"
      [] w = "hold" -> "Hold"
      [] w = "accelerated" -> "Accelerated" [] w = "approval" -> "Approval"
      [] w = "priority" -> "Priority"     [] w = "review" -> "Review"
      [] OTHER -> w

\* term.title()
Title(term) == [k \in 1..Len(term) |-> Capitalize(term[k])]

\* part in word, word.endswith(part), word.startswith(part) on the words of
\* the model: "threshold" holds "hold" at its end
WordHas(word, part) == word = part \/ (word = "threshold" /\ part = "hold")
WordEndsWith(word, part) == word = part \/ (word = "threshold" /\ part = "hold")
WordStartsWith(word, part) == word = part

\* term in doc, as strings: the term starts inside a word, covers whole
\* words, and ends inside a word
TermIn(term, doc) ==
    \E k \in 1..(Len(doc) - Len(term) + 1) :
        IF Len(term) = 1 THEN WordHas(doc[k], term[1])
        ELSE /\ WordEndsWith(doc[k], term[1])
             /\ WordStartsWith(doc[k + Len(term) - 1], term[Len(term)])
             /\ \A j \in 2..(Len(term) - 1) : doc[k + j - 1] = term[j]

\* the loop of lines 272-274 from term number k on, without "and term not in
\* prev_lower"
RECURSIVE detect_in_cur_from(_, _, _)
detect_in_cur_from(k, prev_lower, cur_lower) ==
    IF k > Len(critical_terms) THEN <<>>
    ELSE (IF TermIn(critical_terms[k], cur_lower)
          THEN <<Title(critical_terms[k])>> ELSE <<>>)
         \o detect_in_cur_from(k + 1, prev_lower, cur_lower)

\* the loop of lines 272-274 from term number k on
RECURSIVE detect_from(_, _, _)
detect_from(k, prev_lower, cur_lower) ==
    IF k > Len(critical_terms) THEN <<>>
    ELSE (IF TermIn(critical_terms[k], cur_lower) /\ ~TermIn(critical_terms[k], prev_lower)
          THEN <<Title(critical_terms[k])>> ELSE <<>>)
         \o detect_from(k + 1, prev_lower, cur_lower)

detect_critical_phrases(prev, cur) == detect_from(1, LowerDoc(prev), LowerDoc(cur))

InitCritical ==
    /\ pc = "critical_call"
    /\ fn_args \in [prev_text : Docs, cur_text : Docs]
    /\ fn_result = Unset
    /\ ApiIdle
    /\ ConcIdle
    /\ TrimIdle
    /\ ScoreIdle
    /\ DiffIdle
    /\ VisualIdle
    /\ diff = Unset
    /\ sim_visual = Unset
    /\ calls = {}
    /\ USE_BEDROCK = Unset
    /\ text_changed = Unset
    /\ domain = Unset
    /\ llm_res = Unset
    /\ summary = Unset
    /\ result = Unset

called_vars == <<diff_vars, visual_vars, diff, sim_visual, pipeline_vars, score_vars,
                 api_vars, conc_vars, trim_vars>>

DetectCriticalPhrases ==
    /\ pc = "critical_call"
    /\ pc' = "critical_done"
    /\ fn_result' = detect_critical_phrases(fn_args.prev_text, fn_args.cur_text)
    /\ UNCHANGED <<fn_args, called_vars>>

NextCritical == DetectCriticalPhrases

SpecCritical == InitCritical /\ [][NextCritical]_vars

-----------------------------------------------------------------------------
(* Properties of detect_critical_phrases (specification SpecCritical)      *)

\* place of a title-cased term in the vocabulary
TermIndex(titled) == CHOOSE k \in 1..Len(critical_terms) : Title(critical_terms[k]) = titled

\* C22: detect_critical_phrases(prev, cur) returns exactly the vocabulary
\* terms that are substrings of lower-cased cur and not of lower-cased prev,
\* each title-cased, in vocabulary order and without duplicates; it returns
\* the empty list when prev = cur; and a non-empty list adds the 0.10
\* critical term to the base score of recalibrated_scoring.
C22_CriticalPhrasesDetected ==
    pc = "critical_done" =>
        LET prev_lower == LowerDoc(fn_args.prev_text)
            cur_lower == LowerDoc(fn_args.cur_text)
            wanted == {k \in 1..Len(critical_terms) :
                          /\ TermIn(critical_terms[k], cur_lower)
                          /\ ~TermIn(critical_terms[k], prev_lower)}
        IN  /\ \A n \in 1..Len(fn_result) :
                  \E k \in wanted : fn_result[n] = Title(critical_terms[k])
            /\ \A k \in wanted :
                  \E n \in 1..Len(fn_result) : fn_result[n] = Title(critical_terms[k])
            /\ \A m, n \in 1..Len(fn_result) :
                  m < n => TermIndex(fn_result[m]) < TermIndex(fn_result[n])
            /\ fn_args.prev_text = fn_args.cur_text => fn_result = <<>>
            /\ \A sim \in CoarseSims, nd \in NumericDeltas, hits \in CoarseHits :
                  base_score(sim, nd, hits, fn_result, 5000)
                  = base_score(sim, nd, hits, <<>>, 5000)
                    + (IF fn_result # <<>> THEN 1000000 ELSE 0)

\* the current text "threshold RECALL" holds "hold" and then "recall", the
\* previous text neither: both are returned, "Recall" first as in the
\* vocabulary
C22_Witness ==
    /\ pc = "critical_done"
    /\ fn_args.prev_text = <<"Fast", "track">>
    /\ fn_args.cur_text = <<"threshold", "RECALL">>
    /\ fn_result = << <<"Recall">>, <<"Hold">> >>

-----------------------------------------------------------------------------
(* compare_texts.compute_numeric_delta.  Specification SpecNumeric.  A KPI *)
(* value is an integer number of 1/200 (1.0 is 200, 0.01 is 2); a delta is *)
(* the exact fraction [n, d] in lowest terms.                              *)

KpiLabels == {"Enrollment", "Phase", "Protocol"}
\* -2.0, 0.0, 1.0, 1.005, 3.0
KpiValues == {-400, 0, 200, 201, 600}
KpiMaps == UNION {[labels -> KpiValues] : labels \in SUBSET KpiLabels}

\* sorted(...) of label strings
SortedLabels == <<"Enrollment", "Phase", "Protocol">>

Abs(x) == IF x < 0 THEN -x ELSE x

RECURSIVE Gcd(_, _)
Gcd(a, b) == IF b = 0 THEN a ELSE Gcd(b, a % b)

\* the fraction n/d (n >= 0, d > 0) in lowest terms
Frac(n, d) == [n |-> n \div Gcd(n, d), d |-> d \div Gcd(n, d)]
FracAdd(x, y) == Frac(x.n * y.d + y.n * x.d, x.d * y.d)
FracLeq(x, y) == x.n * y.d <= y.n * x.d

RECURSIVE FracSum(_)
FracSum(fs) == IF fs = <<>> THEN Frac(0, 1) ELSE FracAdd(Head(fs), FracSum(Tail(fs)))

\* int(v): towards zero
IntOf(v) == IF v >= 0 THEN v \div 200 ELSE -((-v) \div 200)

\* f"{v:.1f}": the nearest tenth
OneDecimal(v) == IF v >= 0 THEN RoundHalfEven(v, 20) ELSE -RoundHalfEven(-v, 20)

\* lines 313-330: the insight string of one label
insight(key, prev_val, cur_val) ==
    IF key \in {"Phase", "Enrollment"}
    THEN [label |-> key, format |-> "int", prev |-> IntOf(prev_val), cur |-> IntOf(cur_val)]
    ELSE [label |-> key, format |-> ".1f", prev |-> OneDecimal(prev_val),
          cur |-> OneDecimal(cur_val)]

\* line 306 with >= for >
meaningful_or_equal(prev_val, cur_val) == Abs(prev_val - cur_val) >= 0

\* line 306: abs(prev_val - cur_val) > 0.01.  The values of the model are
\* not within 0.01 +- 0.005 of one another: there the binary values decide
\* (1.01 - 1.0 is above the binary 0.01, 2.01 - 2.0 is below it).
meaningful(prev_val, cur_val) == Abs(prev_val - cur_val) > 2

\* lines 308-309 with denominator = max(abs(prev_val), 1.0)
normalized_delta_by_prev(prev_val, cur_val) ==
    Frac(Abs(cur_val - prev_val), Max(Abs(prev_val), 200))

\* lines 308-309
normalized_delta(prev_val, cur_val) ==
    Frac(Abs(cur_val - prev_val), Max(Max(Abs(prev_val), Abs(cur_val)), 200))

\* the loop of lines 302-330 over the sorted shared labels from number k on:
\* the deltas and the insights appended
RECURSIVE delta_loop(_, _, _)
delta_loop(k, prev_kpis, cur_kpis) ==
    IF k > Len(SortedLabels) THEN [deltas |-> <<>>, insights |-> <<>>]
    ELSE LET key == SortedLabels[k]
             rest == delta_loop(k + 1, prev_kpis, cur_kpis)
         IN  IF /\ key \in DOMAIN prev_kpis \cap DOMAIN cur_kpis
                /\ meaningful(prev_kpis[key], cur_kpis[key])
             THEN [deltas |-> <<normalized_delta(prev_kpis[key], cur_kpis[key])>>
                              \o rest.deltas,
                   insights |-> <<insight(key, prev_kpis[key], cur_kpis[key])>>
                                \o rest.insights]
             ELSE rest

\* lines 332-333
compute_numeric_delta(prev_kpis, cur_kpis) ==
    LET looped == delta_loop(1, prev_kpis, cur_kpis)
        total == FracSum(looped.deltas)
    IN  [mean_delta |-> IF looped.deltas # <<>>
                        THEN Frac(total.n, total.d * Len(looped.deltas))
                        ELSE Frac(0, 1),
         insights |-> looped.insights]

InitNumeric ==
    /\ pc = "numeric_call"
    /\ fn_args \in [prev_kpis : KpiMaps, cur_kpis : KpiMaps]
    /\ fn_result = Unset
    /\ ApiIdle
    /\ ConcIdle
    /\ TrimIdle
    /\ ScoreIdle
    /\ DiffIdle
    /\ VisualIdle
    /\ diff = Unset
    /\ sim_visual = Unset
    /\ calls = {}
    /\ USE_BEDROCK = Unset
    /\ text_changed = Unset
    /\ domain = Unset
    /\ llm_res = Unset
    /\ summary = Unset
    /\ result = Unset

ComputeNumericDelta ==
    /\ pc = "numeric_call"
    /\ pc' = "numeric_done"
    /\ fn_result' = compute_numeric_delta(fn_args.prev_kpis, fn_args.cur_kpis)
    /\ UNCHANGED <<fn_args, called_vars>>

NextNumeric == ComputeNumericDelta

SpecNumeric == InitNumeric /\ [][NextNumeric]_vars

-----------------------------------------------------------------------------
(* Properties of compute_numeric_delta (specification SpecNumeric)         *)

\* the labels present in both maps whose values differ by more than 0.01
ChangedLabels(prev_kpis, cur_kpis) ==
    {key \in DOMAIN prev_kpis \cap DOMAIN cur_kpis :
        Abs(prev_kpis[key] - cur_kpis[key]) > 2}

\* |cur - prev| / max(|prev|, |cur|, 1.0)
DeltaOf(prev_val, cur_val) ==
    LET largest == IF Abs(prev_val) >= Abs(cur_val) THEN Abs(prev_val) ELSE Abs(cur_val)
    IN  Frac(Abs(cur_val - prev_val), IF largest >= 200 THEN largest ELSE 200)

\* the sum of the deltas of the labels `keys`
RECURSIVE DeltaSum(_, _, _)
DeltaSum(keys, prev_kpis, cur_kpis) ==
    IF keys = {} THEN Frac(0, 1)
    ELSE LET key == CHOOSE k \in keys : TRUE
         IN  FracAdd(DeltaOf(prev_kpis[key], cur_kpis[key]),
                     DeltaSum(keys \ {key}, prev_kpis, cur_kpis))

\* C23: compute_numeric_delta emits exactly one insight for every label
\* present in both maps whose values differ by more than 0.01 and nothing
\* for any other label; the returned value is the mean of the deltas
\* |cur-prev| / max(|prev|, |cur|, 1.0) of those labels; it is (0.0, []) when
\* no label is shared or no shared label changed.
C23_OneDeltaPerChangedLabel ==
    pc = "numeric_done" =>
        LET prev_kpis == fn_args.prev_kpis
            cur_kpis == fn_args.cur_kpis
            changed == ChangedLabels(prev_kpis, cur_kpis)
            insights == fn_result.insights
            mean == fn_result.mean_delta
        IN  /\ Len(insights) = Cardinality(changed)
            /\ \A key \in changed : \E n \in 1..Len(insights) : insights[n].label = key
            /\ \A n \in 1..Len(insights) : insights[n].label \in changed
            /\ changed # {} =>
                  LET total == DeltaSum(changed, prev_kpis, cur_kpis)
                  IN  mean = Frac(total.n, total.d * Cardinality(changed))
            /\ changed = {} => (mean = [n |-> 0, d |-> 1] /\ insights = <<>>)

\* two shared labels changed (Phase 1 -> 3, Protocol v1.0 -> v3.0), a third
\* moved by 0.005 only: two insights, and a mean of 2/3
C23_Witness ==
    /\ pc = "numeric_done"
    /\ fn_args.prev_kpis = [Enrollment |-> 200, Phase |-> 200, Protocol |-> 200]
    /\ fn_args.cur_kpis = [Enrollment |-> 201, Phase |-> 600, Protocol |-> 600]
    /\ Len(fn_result.insights) = 2
    /\ fn_result.mean_delta = [n |-> 2, d |-> 3]

NonNegative(kpis) == \A key \in DOMAIN kpis : kpis[key] >= 0

\* line 359: min(1.0, mean_numeric_delta) * 0.25, as a fraction
numeric_term(mean_numeric_delta) ==
    LET capped == IF FracLeq(Frac(1, 1), mean_numeric_delta) THEN Frac(1, 1)
                  ELSE mean_numeric_delta
    IN  [capped |-> capped, term |-> Frac(capped.n, capped.d * 4)]

\* C30: for KPI maps with non-negative values every per-label delta of
\* compute_numeric_delta lies in (0, 1] and the returned mean lies in [0, 1],
\* and it is 0 exactly when the insight list is empty; hence the cap
\* min(1, mean_numeric_delta) of recalibrated_scoring does not change the
\* value and the numeric term never exceeds 0.25.
C30_DeltaWithinUnit ==
    (pc = "numeric_done" /\ NonNegative(fn_args.prev_kpis) /\ NonNegative(fn_args.cur_kpis)) =>
        LET deltas == delta_loop(1, fn_args.prev_kpis, fn_args.cur_kpis).deltas
            mean == fn_result.mean_delta
        IN  /\ \A n \in 1..Len(deltas) : deltas[n].n > 0 /\ FracLeq(deltas[n], Frac(1, 1))
            /\ mean.n >= 0
            /\ FracLeq(mean, Frac(1, 1))
            /\ (mean.n = 0) <=> (fn_result.insights = <<>>)
            /\ numeric_term(mean).capped = mean
            /\ FracLeq(numeric_term(mean).term, Frac(1, 4))

\* non-negative maps: Enrollment 0 -> 3 gives the delta 1, Phase 1 -> 3 the
\* delta 2/3; the mean is 5/6
C30_Witness ==
    /\ pc = "numeric_done"
    /\ fn_args.prev_kpis = [Enrollment |-> 0, Phase |-> 200]
    /\ fn_args.cur_kpis = [Enrollment |-> 600, Phase |-> 600]
    /\ Len(fn_result.insights) = 2
    /\ fn_result.mean_delta = [n |-> 5, d |-> 6]

-----------------------------------------------------------------------------
(* compare_texts.compute_goal_keywords, count_keyword_hits.  Specification *)
(* SpecKeywords: the two as enhanced_diff_analysis calls them (lines       *)
(* 424-425), on a goal, a text and a list of numeric insights.             *)

MaxGoalWords == 2    \* longest goal, in words

GoalWords == {"hold", "Hold", "recall", "on", "phase"}
GoalTexts == SeqsUpTo(GoalWords, MaxGoalWords)
InsightLists == {<<>>, <<insight("Phase", 200, 600)>>}

\* number of characters of a word of a goal
WordLength(w) ==
    CASE w = "on" -> 2
      [] w \in {"hold", "Hold"} -> 4
      [] w = "phase" -> 5
      [] OTHER -> 6

\* re.findall(r'\b\w{3,}\b', goal.lower())
compute_goal_keywords(goal) == SelectSeq(LowerDoc(goal), LAMBDA w : WordLength(w) >= 3)

\* the words of an insight string such as "Phase 1 -> 3": only its label is
\* made of letters
InsightWords(ins) == <<ins.label, "number", "arrow", "number">>

RECURSIVE JoinWords(_)
JoinWords(list) == IF list = <<>> THEN <<>> ELSE InsightWords(Head(list)) \o JoinWords(Tail(list))

\* sum(1 for kw in goal_keywords if kw in combined), from keyword number k on
RECURSIVE count_from(_, _, _)
count_from(k, goal_keywords, combined) ==
    IF k > Len(goal_keywords) THEN 0
    ELSE (IF \E n \in 1..Len(combined) : WordHas(combined[n], goal_keywords[k])
          THEN 1 ELSE 0)
         + count_from(k + 1, goal_keywords, combined)

\* lines 284-287
count_keyword_hits(goal_keywords, text, numeric_insights) ==
    count_from(1, goal_keywords, LowerDoc(text \o JoinWords(numeric_insights)))

InitKeywords ==
    /\ pc = "keywords_call"
    /\ fn_args \in [goal : GoalTexts, text : Docs, numeric_insights : InsightLists]
    /\ fn_result = Unset
    /\ ApiIdle
    /\ ConcIdle
    /\ TrimIdle
    /\ ScoreIdle
    /\ DiffIdle
    /\ VisualIdle
    /\ diff = Unset
    /\ sim_visual = Unset
    /\ calls = {}
    /\ USE_BEDROCK = Unset
    /\ text_changed = Unset
    /\ domain = Unset
    /\ llm_res = Unset
    /\ summary = Unset
    /\ result = Unset

\* lines 424-425
CountKeywordHits ==
    /\ pc = "keywords_call"
    /\ pc' = "keywords_done"
    /\ fn_result' = count_keyword_hits(compute_goal_keywords(fn_args.goal), fn_args.text,
                                       fn_args.numeric_insights)
    /\ UNCHANGED <<fn_args, called_vars>>

NextKeywords == CountKeywordHits

SpecKeywords == InitKeywords /\ [][NextKeywords]_vars

-----------------------------------------------------------------------------
(* Properties of count_keyword_hits (specification SpecKeywords)           *)

\* C24: count_keyword_hits returns the number of distinct keywords that
\* occur as a substring of the lower-cased text and insights: a word
\* repeated in the goal is counted once.
C24_DistinctKeywordsCounted ==
    pc = "keywords_done" =>
        LET goal_keywords == compute_goal_keywords(fn_args.goal)
            combined == LowerDoc(fn_args.text \o JoinWords(fn_args.numeric_insights))
            found == {goal_keywords[k] : k \in
                        {j \in 1..Len(goal_keywords) :
                            \E n \in 1..Len(combined) : WordHas(combined[n], goal_keywords[j])}}
        IN  fn_result = Cardinality(found)

-----------------------------------------------------------------------------
(* compare_texts.extract_numbers_with_labels, the Phase entry (lines       *)
(* 183-195).  Specification SpecPhase.  Here a text is a sequence of words *)
(* separated by single blanks, "." being a full stop; it is shorter than   *)
(* 500 characters.                                                         *)

MaxPhaseWords == 3    \* longest text given to extract_numbers_with_labels, in words

PhaseNumerals == {"1", "2", "3", "4", "i", "ii", "iii", "iv"}
PhaseWords == {"trial", "study", "Phase", "."} \cup PhaseNumerals
PhaseTexts == SeqsUpTo(PhaseWords, MaxPhaseWords)

\* where (?:study|trial|clinical\s+trial)[^.]*?phase\s*(?:iii|3|ii|2|iv|4|i|1)
\* can match from word s: the first "phase" after s that a numeral follows,
\* no full stop in between; 0 if there is none
OverviewEnd(text_lower, s) ==
    LET ends == {p \in (s + 1)..(Len(text_lower) - 1) :
                    /\ text_lower[p] = "phase"
                    /\ text_lower[p + 1] \in PhaseNumerals
                    /\ \A k \in (s + 1)..(p - 1) : text_lower[k] # "."}
    IN  IF ends = {} THEN 0 ELSE CHOOSE p \in ends : \A q \in ends : p <= q

\* re.search(...): the leftmost match, as the numeral it ends with; "" if
\* nothing matches
overview_match(text_lower) ==
    LET starts == {s \in 1..Len(text_lower) :
                      /\ text_lower[s] \in {"study", "trial"}
                      /\ OverviewEnd(text_lower, s) # 0}
    IN  IF starts = {} THEN ""
        ELSE LET s == CHOOSE x \in starts : \A y \in starts : x <= y
             IN  text_lower[OverviewEnd(text_lower, s) + 1]

\* lines 184-195: kpis after the phase detection; values in 1/200
phase_kpis(text) ==
    LET numeral == overview_match(LowerDoc(text))
    IN  IF numeral = "" THEN <<>>
        ELSE IF numeral \in {"iii", "3"} THEN [Phase |-> 600]
        ELSE IF numeral \in {"ii", "2"} THEN [Phase |-> 400]
        ELSE IF numeral \in {"iv", "4"} THEN [Phase |-> 800]
        ELSE IF numeral = "i" THEN [Phase |-> 200]
        ELSE <<>>

InitPhase ==
    /\ pc = "phase_call"
    /\ fn_args \in [text : PhaseTexts]
    /\ fn_result = Unset
    /\ ApiIdle
    /\ ConcIdle
    /\ TrimIdle
    /\ ScoreIdle
    /\ DiffIdle
    /\ VisualIdle
    /\ diff = Unset
    /\ sim_visual = Unset
    /\ calls = {}
    /\ USE_BEDROCK = Unset
    /\ text_changed = Unset
    /\ domain = Unset
    /\ llm_res = Unset
    /\ summary = Unset
    /\ result = Unset

ExtractPhase ==
    /\ pc = "phase_call"
    /\ pc' = "phase_done"
    /\ fn_result' = phase_kpis(fn_args.text)
    /\ UNCHANGED <<fn_args, called_vars>>

NextPhase == ExtractPhase

SpecPhase == InitPhase /\ [][NextPhase]_vars

-----------------------------------------------------------------------------
(* Properties of the phase detection (specification SpecPhase)             *)

\* the phase a numeral names, in 1/200
PhaseNamed(numeral) ==
    CASE numeral \in {"i", "1"} -> 200
      [] numeral \in {"ii", "2"} -> 400
      [] numeral \in {"iii", "3"} -> 600
      [] OTHER -> 800

\* the phases the text mentions: "phase" followed by a numeral
PhasesMentioned(text) ==
    {PhaseNamed(text[p + 1]) : p \in {q \in 1..(Len(text) - 1) :
        Lower(text[q]) = "phase" /\ text[q + 1] \in PhaseNumerals}}

\* C25: a text that mentions 'phase n' (n written 1-4 or I-IV) and holds the
\* word 'trial' or 'study' yields Phase = n (here: when n is the only phase
\* it mentions); and Phase 1 is reported only for a text that mentions
\* phase 1, never for one that says 'Phase II' or 'Phase IV' only.
C25_PhaseExtracted ==
    pc = "phase_done" =>
        LET text == fn_args.text
            mentioned == PhasesMentioned(text)
        IN  /\ \A n \in mentioned :
                  (mentioned = {n} /\ \E k \in 1..Len(text) : text[k] \in {"trial", "study"})
                  => fn_result = [Phase |-> n]
            /\ fn_result = [Phase |-> 200] => 200 \in mentioned

-----------------------------------------------------------------------------
(* compare_texts: _ahash, _dhash, _hamming, _sim_bits, _rms_similarity,    *)
(* _visual_similarity.  Specification SpecVisualCli.  An input is a        *)
(* picture, None, or an object that is no image (a path string).  A list   *)
(* of bits is the set of the positions of its ones and its length.  The    *)
(* pictures are constant on the 8x8 blocks of their 64x64 grid, so the     *)
(* mean over 64x64 is the mean over the 8x8 grid.  Similarities of bits    *)
(* are in 1/64, the RMS similarity in 1/100 (rounded down), the combined   *)
(* value in 1/64000.                                                       *)

NoImage == [none |-> TRUE]
NotAnImage == [none |-> FALSE, path |-> "prev.png"]
CliImage(name) == [none |-> FALSE, picture |-> name]
CliInputs == {NoImage, NotAnImage} \cup {CliImage(name) : name \in PictureNames}

IsImage(img) == "picture" \in DOMAIN img

GridWH(name, w, h) == [k \in 0..(w * h - 1) |-> Pixel(name, k % w, k \div w, w)]

NoBits == [none |-> TRUE]
Bits(ones, length) == [none |-> FALSE, ones |-> ones, len |-> length]

\* lines 61-70; any exception gives None
ahash_bits(img) ==
    IF ~IsImage(img) THEN NoBits
    ELSE LET px == GridWH(img.picture, 8, 8)
             total == SumGrid(px, 64)
         IN  Bits({k \in 0..63 : px[k] * 64 > total}, 64)

\* lines 73-85; any exception gives None
dhash_bits(img) ==
    IF ~IsImage(img) THEN NoBits
    ELSE LET px == GridWH(img.picture, 9, 8)
         IN  Bits({y * 8 + x : x \in 0..7, y \in 0..7}
                  \cap {k \in 0..63 : px[(k \div 8) * 9 + (k % 8)]
                                      < px[(k \div 8) * 9 + (k % 8) + 1]}, 64)

\* "not a": None or the empty list
Falsy(a) == a.none \/ a.len = 0

\* lines 88-92
hamming_bits(a, b) ==
    IF Falsy(a) \/ Falsy(b) \/ a.len # b.len THEN (IF Falsy(a) THEN 0 ELSE a.len)
    ELSE Cardinality((a.ones \ b.ones) \cup (b.ones \ a.ones))

\* lines 95-99, in 1/64 (the lists have 64 bits)
sim_bits(a, b) ==
    IF Falsy(a) \/ Falsy(b) THEN 64
    ELSE Max(0, 64 - (hamming_bits(a, b) * 64) \div a.len)

\* the largest r with r * r <= n, for n up to 10000
Isqrt(n) == CHOOSE r \in 0..100 : r * r <= n /\ (r + 1) * (r + 1) > n

RECURSIVE SumSquares(_, _, _)
SumSquares(p1, p2, k) ==
    IF k = 0 THEN 0
    ELSE (p1[k - 1] - p2[k - 1]) * (p1[k - 1] - p2[k - 1]) + SumSquares(p1, p2, k - 1)

\* lines 102-113, in 1/100; any exception gives None
rms_similarity(a, b) ==
    IF ~IsImage(a) \/ ~IsImage(b) THEN None
    ELSE LET mse == SumSquares(GridWH(a.picture, 8, 8), GridWH(b.picture, 8, 8), 64) \div 64
             \* (rmse / 255)^2 in 1/10000, then rmse / 255 in 1/100
             rmse_255 == Isqrt((mse * 10000) \div 65025)
         IN  [none |-> FALSE, value |-> Max(0, 100 - rmse_255)]

\* lines 116-134, in 1/64000
visual_similarity(img_prev, img_cur) ==
    LET ah == sim_bits(ahash_bits(img_prev), ahash_bits(img_cur))
        dh == sim_bits(dhash_bits(img_prev), dhash_bits(img_cur))
        rm == rms_similarity(img_prev, img_cur)
    IN  IF rm.none THEN None
        ELSE [none |-> FALSE,
              value |-> Max(0, Min(64000, 500 * ah + 300 * dh + 128 * rm.value))]

InitVisualCli ==
    /\ pc = "visual_cli_call"
    /\ fn_args \in [img_prev : CliInputs, img_cur : CliInputs]
    /\ fn_result = Unset
    /\ ApiIdle
    /\ ConcIdle
    /\ TrimIdle
    /\ ScoreIdle
    /\ DiffIdle
    /\ VisualIdle
    /\ diff = Unset
    /\ sim_visual = Unset
    /\ calls = {}
    /\ USE_BEDROCK = Unset
    /\ text_changed = Unset
    /\ domain = Unset
    /\ llm_res = Unset
    /\ summary = Unset
    /\ result = Unset

VisualSimilarityCli ==
    /\ pc = "visual_cli_call"
    /\ pc' = "visual_cli_done"
    /\ fn_result' = visual_similarity(fn_args.img_prev, fn_args.img_cur)
    /\ UNCHANGED <<fn_args, called_vars>>

NextVisualCli == VisualSimilarityCli

SpecVisualCli == InitVisualCli /\ [][NextVisualCli]_vars

-----------------------------------------------------------------------------
(* Properties of _visual_similarity (specification SpecVisualCli)          *)

\* C26: _visual_similarity returns a number in [0, 1] for every pair of
\* inputs: the clamped 0.5*aHashSim + 0.3*dHashSim + 0.2*rmsSim when both
\* inputs are images, and 1.0 when an input is unusable; it never returns a
\* non-number.
C26_VisualSimilarityTotal ==
    pc = "visual_cli_done" =>
        /\ ~fn_result.none
        /\ fn_result.value >= 0
        /\ fn_result.value <= 64000
        /\ (~IsImage(fn_args.img_prev) \/ ~IsImage(fn_args.img_cur)) =>
                fn_result.value = 64000

-----------------------------------------------------------------------------
(* importance.compute_importance_score on its own.  Specification          *)
(* SpecImportance: one call, similarities in 1/10000.                      *)

ImportanceSims == {0, 1000, 2000, 3000, 4000, 5000, 6000, 7000, 8000, 9000, 10000}

InitImportance ==
    /\ pc = "importance_call"
    /\ fn_args \in [sim_text : ImportanceSims, sim_visual : ImportanceSims, goal : Goals,
                    domain : Domains, keywords : KeywordLists]
    /\ fn_result = Unset
    /\ ApiIdle
    /\ ConcIdle
    /\ TrimIdle
    /\ ScoreIdle
    /\ DiffIdle
    /\ VisualIdle
    /\ diff = Unset
    /\ sim_visual = Unset
    /\ calls = {}
    /\ USE_BEDROCK = Unset
    /\ text_changed = Unset
    /\ domain = Unset
    /\ llm_res = Unset
    /\ summary = Unset
    /\ result = Unset

\* "if keywords:" reads None and [] alike
KeywordsOf(keywords) == IF keywords.none THEN <<>> ELSE keywords.dict

ComputeImportanceScore ==
    /\ pc = "importance_call"
    /\ pc' = "importance_done"
    /\ fn_result' = compute_importance_score(0, 0, fn_args.sim_text, fn_args.sim_visual,
                        fn_args.goal, fn_args.domain, KeywordsOf(fn_args.keywords))
    /\ UNCHANGED <<fn_args, called_vars>>

NextImportance == ComputeImportanceScore

SpecImportance == InitImportance /\ [][NextImportance]_vars

-----------------------------------------------------------------------------
(* Properties of compute_importance_score (specification SpecImportance)   *)

\* the weight the claim gives a lower-cased domain, in hundredths
ClaimedWeight(lowered) ==
    CASE lowered = "regulatory" -> 120
      [] lowered = "safety" -> 115
      [] lowered = "pricing" -> 110
      [] OTHER -> 100

\* C27: compute_importance_score returns
\* round(10 * min(1, ((1-sim_text)*0.6 + (1-sim_visual)*0.4 + 0.05*h) * w), 2),
\* h the number of keywords that are case-insensitive substrings of the
\* goal, w the weight of the lower-cased domain; one more keyword that occurs
\* in the goal, or a listed domain instead of an unlisted one, never lowers
\* the score and raises it when the score without it is between 1.0 and 8.0.
C27_ImportanceFormula ==
    pc = "importance_done" =>
        LET a == fn_args
            list == KeywordsOf(a.keywords)
            h == Cardinality({n \in 1..Len(list) : InGoal(list[n], a.goal)})
            w == ClaimedWeight(Lower(a.domain))
            exact == ((10000 - a.sim_text) * 6 + (10000 - a.sim_visual) * 4 + 5000 * h) * w
            without_domain == compute_importance_score(0, 0, a.sim_text, a.sim_visual,
                                  a.goal, "general", list)
        IN  /\ fn_result = RoundHalfEven(IF exact > 10000000 THEN 10000000 ELSE exact, 10000)
            /\ \A k \in Keywords :
                  InGoal(k, a.goal) =>
                      LET with_k == compute_importance_score(0, 0, a.sim_text, a.sim_visual,
                                        a.goal, a.domain, Append(list, k))
                      IN  /\ with_k >= fn_result
                          /\ (fn_result >= 100 /\ fn_result <= 800) => with_k > fn_result
            /\ fn_result >= without_domain
            /\ (/\ Lower(a.domain) \in {"regulatory", "safety", "pricing"}
                /\ without_domain >= 100
                /\ without_domain <= 800) => fn_result > without_domain

\* sim_text 0.8, sim_visual 0.9, the domain written "Regulatory", one of two
\* keywords in the goal: (0.12 + 0.04 + 0.05) * 1.2 = 0.252, returned as 2.52
C27_Witness ==
    /\ pc = "importance_done"
    /\ fn_args.sim_text = 8000
    /\ fn_args.sim_visual = 9000
    /\ fn_args.domain = "Regulatory"
    /\ fn_args.goal = "Monitor clinical trials"
    /\ fn_args.keywords = Dict(<<"Trial", "approved">>)
    /\ fn_result = 252

-----------------------------------------------------------------------------
(* No change, no alert (specification Spec)                                *)

\* C28: whenever analyze_change returns has_change = false, it returns
\* importance = 'low' and alert_criteria = 'low', whatever the goal, the
\* domain and the keywords are.
C28_NoChangeNoAlert ==
    pc = "done" =>
        \A call \in calls :
            (result[call].ok /\ ~result[call].value.has_change) =>
                /\ result[call].value.importance = "low"
                /\ result[call].value.alert_criteria = "low"

-----------------------------------------------------------------------------
(* compare_texts.recalibrated_scoring on its own.  Specification           *)
(* SpecRecalibrated: one call, arguments in range.                         *)

ScoringSims == {0, 625, 1250, 2500, 3750, 5000, 6250, 7500, 8750, 9375, 10000}
ScoringDeltas == {0, 2500, 10000, 20000}
ScoringAlignments == {0, 5000, 10000}

ScoringArgs ==
    [similarity : ScoringSims, mean_numeric_delta : ScoringDeltas, keyword_hits : 0..MaxHits,
     critical_flags : CriticalFlagLists, goal_alignment : ScoringAlignments, goal : Goals]

Scoring(a) ==
    recalibrated_scoring(a.similarity, a.mean_numeric_delta, a.keyword_hits, a.critical_flags,
                         a.goal_alignment, a.goal)

InitRecalibrated ==
    /\ pc = "scoring_call"
    /\ fn_args \in ScoringArgs
    /\ fn_result = Unset
    /\ ApiIdle
    /\ ConcIdle
    /\ TrimIdle
    /\ ScoreIdle
    /\ DiffIdle
    /\ VisualIdle
    /\ diff = Unset
    /\ sim_visual = Unset
    /\ calls = {}
    /\ USE_BEDROCK = Unset
    /\ text_changed = Unset
    /\ domain = Unset
    /\ llm_res = Unset
    /\ summary = Unset
    /\ result = Unset

RecalibratedScoring ==
    /\ pc = "scoring_call"
    /\ pc' = "scoring_done"
    /\ fn_result' = Scoring(fn_args)
    /\ UNCHANGED <<fn_args, called_vars>>

NextRecalibrated == RecalibratedScoring

SpecRecalibrated == InitRecalibrated /\ [][NextRecalibrated]_vars

-----------------------------------------------------------------------------
(* Properties of recalibrated_scoring (specification SpecRecalibrated)     *)

SeverityRank(importance) ==
    CASE importance = "low" -> 0
      [] importance = "medium" -> 1
      [] importance = "critical" -> 2

\* the arguments that differ from `a` in one place, in the direction of more
\* change
MoreChange(a) ==
    {[a EXCEPT !.similarity = v] : v \in {x \in ScoringSims : x <= a.similarity}}
    \cup {[a EXCEPT !.mean_numeric_delta = v] :
            v \in {x \in ScoringDeltas : x >= a.mean_numeric_delta}}
    \cup {[a EXCEPT !.keyword_hits = v] : v \in a.keyword_hits..MaxHits}
    \cup {[a EXCEPT !.goal_alignment = v] :
            v \in {x \in ScoringAlignments : x >= a.goal_alignment}}
    \cup {[a EXCEPT !.critical_flags = <<"Fast Track">>]}

\* C29: recalibrated_scoring is monotone for inputs in range and a fixed
\* goal: lowering similarity, raising mean_numeric_delta, keyword_hits or
\* goal_alignment, or going from no critical flag to one never lowers the
\* returned score and never moves the severity down low < medium < critical.
C29_ScoringMonotone ==
    pc = "scoring_done" =>
        \A b \in MoreChange(fn_args) :
            /\ Scoring(b).import_score >= fn_result.import_score
            /\ SeverityRank(Scoring(b).importance) >= SeverityRank(fn_result.importance)
            /\ (Scoring(b).alert_criteria = "low") => (fn_result.alert_criteria = "low")
            /\ (fn_result.alert_criteria = "crit") => (Scoring(b).alert_criteria = "crit")

\* a call that scores medium (similarity 0.5, five keyword hits, a flag, goal
\* without a domain word), from which lower similarity leads to critical
C29_Witness ==
    /\ pc = "scoring_done"
    /\ fn_args.similarity = 5000
    /\ fn_args.keyword_hits = 5
    /\ fn_args.critical_flags = <<"Fast Track">>
    /\ fn_result.importance = "medium"
    /\ \E b \in MoreChange(fn_args) : Scoring(b).importance = "critical"

====
